---- MODULE Spec2Model ----
(***************************************************************************)
(* Dinosaur Tower Defense (tower-defense-game/main.js): the simulation     *)
(* state, the Enemy class, the wave spawner, tower placement and the game  *)
(* loop, as a state machine.                                               *)
(*                                                                         *)
(* Number representation.  main.js computes in IEEE doubles; the model     *)
(* computes in integers at a fixed resolution:                             *)
(*   time        1 unit = 0.05 s        (1 s = 20 units)                   *)
(*   hit points  1 unit = 1/200 hp      (d hp = 200*d units)               *)
(*   dps         tenths of hp per second, so dps*dt is in hp units         *)
(*   speed       tenths of px per second                                   *)
(*   factors     per cent (slowFactor 1 = 100, multipliers 1.0 = 100)      *)
(*   probability per mille (Math.random() < p  is  r < 1000*p)             *)
(*   position    whole pixels; a point is <<x, y>>, null is <<>>           *)
(***************************************************************************)
EXTENDS Integers, Sequences, FiniteSets, TLC

VARIABLES
    money, lives, wave,            \* main.js:179
    gameSpeed,                     \* main.js:180
    autoNextTimerId,               \* main.js:181  (TRUE: it holds the id of a timeout)
    autoNextTimeouts,              \* main.js:1694: auto-next timeouts set and neither run nor cleared
    isPaused, previousGameSpeed,   \* main.js:182-183
    previewPos, selectedType,      \* main.js:186-188
    currentMapId,                  \* main.js:42   (paths, pathWeights, mapModifiers follow it)
    gameSettings,                  \* main.js:46
    autoNextChecked,               \* autoNextEl.checked, main.js:19
    ENEMY_ID_SEQ,                  \* main.js:402
    enemies, towers, acidPools,    \* main.js:1422-1427
    raptorLeaps, rushStrikes,      \* main.js:1424-1425
    spits, spikes,                 \* main.js:1426, 1428
    spawning, spawnTimerId,        \* main.js:1431-1432 (TRUE: the interval is active)
    spawnJob,                      \* closure of the interval callback, main.js:1456-1467
    rafPending, rafRunning,        \* loop callbacks requested for the next frame / left in this one
    menuOpen,                      \* mainMenuEl is shown (has no hidden attribute)
    vfx,                           \* effects.js:25-64: VFX.config, VFX.flags and the pools
    hist                           \* observation only: status calls since the last Enemy.update

vars == <<money, lives, wave, gameSpeed, autoNextTimerId, autoNextTimeouts, isPaused, previousGameSpeed,
          previewPos, selectedType, currentMapId, gameSettings, autoNextChecked,
          ENEMY_ID_SEQ, enemies, towers, acidPools, spawning, spawnTimerId, spawnJob,
          raptorLeaps, rushStrikes, spits, spikes,
          rafPending, rafRunning, menuOpen, vfx, hist>>

(***************************************************************************)
(* Bounds of the model.                                                    *)
(***************************************************************************)
MaxWave == 2
MaxEnemies == 2
MaxTowers == 2
MaxLoops == 2
DtFrame == 20
DtLong == 400
MaxIds == 11
MaxWaveW == 7
MaxRestartWave == 1
MaxCountWave == 30

(***************************************************************************)
(* Arithmetic helpers.                                                     *)
(***************************************************************************)
Abs(a) == IF a < 0 THEN -a ELSE a
Min2(a, b) == IF a <= b THEN a ELSE b
Max2(a, b) == IF a >= b THEN a ELSE b
\* a / b rounded toward zero, for b > 0
Quot(a, b) == IF a >= 0 THEN a \div b ELSE -((-a) \div b)
\* Math.round of the non-negative rational n / d (half up)
RoundDiv(n, d) == (2 * n + d) \div (2 * d)

RECURSIVE SqrtSearch(_, _, _)
SqrtSearch(n, lo, hi) ==
    IF lo >= hi THEN lo
    ELSE LET mid == (lo + hi + 1) \div 2
         IN  IF mid * mid <= n THEN SqrtSearch(n, mid, hi) ELSE SqrtSearch(n, lo, mid - 1)
\* Math.hypot at pixel resolution: exact on axis-parallel vectors, floor otherwise
hypot(dx, dy) ==
    IF dy = 0 THEN Abs(dx)
    ELSE IF dx = 0 THEN Abs(dy)
    ELSE SqrtSearch(dx * dx + dy * dy, 0, Abs(dx) + Abs(dy))

RECURSIVE SumSeq(_)
SumSeq(s) == IF s = <<>> THEN 0 ELSE Head(s) + SumSeq(Tail(s))

(***************************************************************************)
(* Static configuration.                                                   *)
(***************************************************************************)
TOWER_TYPES ==
    [RaptorNest     |-> [cost |-> 60,  range |-> 140],
     Protoceratops  |-> [cost |-> 55,  range |-> 110],
     Triceratops    |-> [cost |-> 85,  range |-> 130],
     Brachiosaurus  |-> [cost |-> 95,  range |-> 160],
     Dilophosaurus  |-> [cost |-> 75,  range |-> 180],
     Stegosaurus    |-> [cost |-> 80,  range |-> 170],
     Iguanodon      |-> [cost |-> 70,  range |-> 150],
     Stonklodon     |-> [cost |-> 90,  range |-> 120],
     TRex           |-> [cost |-> 150, range |-> 155],
     Spinosaurus    |-> [cost |-> 170, range |-> 190],
     Pteranodon     |-> [cost |-> 130, range |-> 200],
     Ankylosaurus   |-> [cost |-> 110, range |-> 145],
     Dreadnoughtus  |-> [cost |-> 190, range |-> 150],
     Quetzalcoatlus |-> [cost |-> 200, range |-> 9999]]

MAPS ==
    [jungle |->
        [path |-> << <<50, 300>>, <<120, 300>>, <<120, 200>>, <<180, 200>>, <<180, 140>>,
                     <<280, 140>>, <<280, 240>>, <<380, 240>>, <<380, 140>>, <<480, 140>>,
                     <<480, 320>>, <<580, 320>>, <<580, 380>>, <<680, 380>>, <<680, 300>>,
                     <<750, 300>> >>,
         modifiers |-> [hpMult |-> 90, speedMult |-> 95, countMult |-> 100]],
     coast |->
        [paths |-> << << <<40, 150>>, <<160, 150>>, <<160, 80>>, <<320, 80>>, <<320, 180>>,
                         <<480, 180>>, <<480, 120>>, <<600, 120>>, <<600, 200>>, <<750, 200>> >>,
                      << <<40, 450>>, <<140, 450>>, <<140, 380>>, <<280, 380>>, <<280, 480>>,
                         <<420, 480>>, <<420, 380>>, <<560, 380>>, <<560, 450>>, <<750, 450>> >> >>,
         pathWeights |-> <<50, 50>>,
         modifiers |-> [hpMult |-> 100, speedMult |-> 105, countMult |-> 110]],
     volcano |->
        [paths |-> << << <<40, 100>>, <<140, 100>>, <<140, 60>>, <<280, 60>>, <<280, 140>>,
                         <<420, 140>>, <<420, 80>>, <<560, 80>>, <<560, 160>>, <<750, 160>> >>,
                      << <<40, 300>>, <<120, 300>>, <<120, 240>>, <<240, 240>>, <<240, 340>>,
                         <<380, 340>>, <<380, 280>>, <<520, 280>>, <<520, 360>>, <<750, 360>> >>,
                      << <<40, 500>>, <<160, 500>>, <<160, 440>>, <<300, 440>>, <<300, 520>>,
                         <<460, 520>>, <<460, 460>>, <<600, 460>>, <<600, 520>>, <<750, 520>> >> >>,
         pathWeights |-> <<30, 40, 30>>,
         modifiers |-> [hpMult |-> 125, speedMult |-> 115, countMult |-> 130]]]

MapIds == DOMAIN MAPS

\* loadMap(id): the path set, the weights and the modifiers it installs for map id
MapPaths(id) ==
    IF "paths" \in DOMAIN MAPS[id] THEN MAPS[id].paths ELSE << MAPS[id].path >>
MapWeights(id) ==
    IF "paths" \in DOMAIN MAPS[id] THEN MAPS[id].pathWeights ELSE << 100 >>
paths == MapPaths(currentMapId)
pathWeights == MapWeights(currentMapId)
mapModifiers == MAPS[currentMapId].modifiers

getDifficultyModifiers ==
    CASE gameSettings.difficulty = "easy" ->
            [hpMult |-> 70, speedMult |-> 80, countMult |-> 80, moneyMult |-> 130]
      [] gameSettings.difficulty = "hard" ->
            [hpMult |-> 130, speedMult |-> 120, countMult |-> 120, moneyMult |-> 80]
      [] gameSettings.difficulty = "nightmare" ->
            [hpMult |-> 160, speedMult |-> 140, countMult |-> 150, moneyMult |-> 60]
      [] OTHER ->
            [hpMult |-> 100, speedMult |-> 100, countMult |-> 100, moneyMult |-> 100]

DefaultSettings ==
    [difficulty |-> "normal", startingMoney |-> 100, startingLives |-> 10, waveReward |-> 20]

(***************************************************************************)
(* class Enemy (main.js:404-612).  An enemy is a record; the methods that  *)
(* also write the globals money and lives work on a context                *)
(* c = [e |-> enemy, money |-> money, lives |-> lives].                    *)
(***************************************************************************)
PathOf(e) == MapPaths(e.pathMap)[e.pathIndex + 1]

\* constructor: starts exactly on the first point of its path
Enemy(id, hp, speed, pathIndex, mapId) ==
    [id |-> id, hp |-> hp, maxHp |-> hp, baseSpeed |-> speed, radius |-> 10,
     pathIndex |-> pathIndex, pathMap |-> mapId, waypoint |-> 0,
     x |-> MapPaths(mapId)[pathIndex + 1][1][1],
     y |-> MapPaths(mapId)[pathIndex + 1][1][2],
     alive |-> TRUE,
     bleedDps |-> 0, bleedTimer |-> 0, slowFactor |-> 100, slowTimer |-> 0, stunTimer |-> 0]

\* this.path[this.waypoint+1] || null
nextTarget(e) ==
    IF e.waypoint + 2 >= 1 /\ e.waypoint + 2 <= Len(PathOf(e))
    THEN PathOf(e)[e.waypoint + 2] ELSE <<>>
\* this.path[this.waypoint] || null
currentWaypoint(e) ==
    IF e.waypoint + 1 >= 1 /\ e.waypoint + 1 <= Len(PathOf(e))
    THEN PathOf(e)[e.waypoint + 1] ELSE <<>>

\* faulty versions in which the last call wins
applyBleed_LastWins(e, dps, duration) ==
    [e EXCEPT !.bleedDps = dps, !.bleedTimer = duration]
applySlow_LastWins(e, factor, duration) ==
    [e EXCEPT !.slowFactor = factor, !.slowTimer = duration]

applyBleed(e, dps, duration) ==
    [e EXCEPT !.bleedDps = Max2(@, dps), !.bleedTimer = Max2(@, duration)]
applySlow(e, factor, duration) ==
    [e EXCEPT !.slowFactor = Min2(@, factor), !.slowTimer = Max2(@, duration)]
applyStun(e, duration) ==
    [e EXCEPT !.stunTimer = Max2(@, duration)]

\* normalize(dx, dy) times len, in whole pixels (exact on axis-parallel vectors)
normalize(dx, dy, len) ==
    LET d == IF hypot(dx, dy) = 0 THEN 1 ELSE hypot(dx, dy)
    IN  <<Quot(dx * len, d), Quot(dy * len, d)>>

\* a faulty knockback that pushes an enemy on its first segment the full distance
knockback_FullPush(e, distance) ==
    LET a   == currentWaypoint(e)
        b   == IF nextTarget(e) = <<>> THEN a ELSE nextTarget(e)
        dir == normalize(b[1] - a[1], b[2] - a[2], distance)
    IN  [e EXCEPT !.x = @ - dir[1], !.y = @ - dir[2]]

\* the test `this.waypoint > 0` of line 467 is always true after the return of
\* line 456, so the branch of lines 485-490 is never run
knockback(e, distance) ==
    IF e.waypoint <= 0 THEN e
    ELSE LET a    == currentWaypoint(e)
             b    == IF nextTarget(e) = <<>> THEN a ELSE nextTarget(e)
             dir  == normalize(b[1] - a[1], b[2] - a[2], distance)
             newX == e.x - dir[1]
             newY == e.y - dir[2]
             prev == PathOf(e)[e.waypoint]
             distToPrev     == hypot(newX - prev[1], newY - prev[2])
             distCurrToPrev == hypot(a[1] - prev[1], a[2] - prev[2])
             remainingDist  == distance - hypot(e.x - a[1], e.y - a[2])
             back    == Min2(remainingDist, Quot(9 * distCurrToPrev, 10))
             prevDir == normalize(a[1] - prev[1], a[2] - prev[2], back)
         IN  IF distToPrev < distCurrToPrev
             THEN [e EXCEPT !.waypoint = @ - 1,
                            !.x = a[1] - prevDir[1], !.y = a[2] - prevDir[2]]
             ELSE [e EXCEPT !.x = newX, !.y = newY]

\* Math.round(10 * diffMods.moneyMult)
KillReward == RoundDiv(10 * getDifficultyModifiers.moneyMult, 100)

\* a faulty die that pays but leaves the enemy alive
die_StaysAlive(c) ==
    IF ~c.e.alive THEN c
    ELSE [c EXCEPT !.money = @ + KillReward]

die(c) ==
    IF ~c.e.alive THEN c
    ELSE [c EXCEPT !.e.alive = FALSE, !.money = @ + KillReward]

\* a faulty reachEnd that takes the life but leaves the enemy alive
reachEnd_StaysAlive(c) ==
    IF ~c.e.alive THEN c
    ELSE [c EXCEPT !.lives = @ - 1]

\* a faulty takeDamage that leaves the hit points alone
takeDamage_None(c, d) == c

reachEnd(c) ==
    IF ~c.e.alive THEN c
    ELSE [c EXCEPT !.e.alive = FALSE, !.lives = @ - 1]

takeDamage(c, d) ==
    LET c1 == [c EXCEPT !.e.hp = @ - d]
    IN  IF c1.e.hp <= 0 THEN die(c1) ELSE c1

validatePosition(e) ==
    LET curr == currentWaypoint(e)
        next == nextTarget(e)
    IN  IF curr = <<>> \/ next = <<>> THEN e
        ELSE LET segX == next[1] - curr[1]
                 segY == next[2] - curr[2]
                 segLenSq == segX * segX + segY * segY
             IN  IF segLenSq > 0
                 THEN LET dot == (e.x - curr[1]) * segX + (e.y - curr[2]) * segY
                          \* t = tNum / segLenSq, clamped to [0, 1]
                          tNum == Max2(0, Min2(segLenSq, dot))
                          projX == curr[1] + Quot(tNum * segX, segLenSq)
                          projY == curr[2] + Quot(tNum * segY, segLenSq)
                          ddx == e.x - projX
                          ddy == e.y - projY
                      IN  IF ddx * ddx + ddy * ddy > 5 * 5
                          THEN [e EXCEPT !.x = projX, !.y = projY]
                          ELSE e
                 ELSE e

\* update, lines 511-517: bleed
EnemyBleed(c, dt) ==
    IF c.e.bleedTimer > 0
    THEN LET e1 == [c.e EXCEPT !.hp = @ - c.e.bleedDps * dt, !.bleedTimer = @ - dt]
             e2 == IF e1.bleedTimer <= 0 THEN [e1 EXCEPT !.bleedDps = 0] ELSE e1
             c2 == [c EXCEPT !.e = e2]
         IN  IF e2.hp <= 0 THEN die(c2) ELSE c2
    ELSE c

\* update, lines 519-523: slow timer decay
EnemySlowDecay(e, dt) ==
    IF e.slowTimer > 0
    THEN LET e1 == [e EXCEPT !.slowTimer = @ - dt]
         IN  IF e1.slowTimer <= 0 THEN [e1 EXCEPT !.slowFactor = 100] ELSE e1
    ELSE e

\* a faulty movement that stops on the waypoint and drops the rest of the step
EnemyMove_NoCarry(c, dt, gs) ==
    LET e == c.e
        target == nextTarget(e)
    IN  IF target = <<>>
        THEN IF e.waypoint >= Len(PathOf(e)) - 1 THEN reachEnd(c) ELSE c
        ELSE LET dx == target[1] - e.x
                 dy == target[2] - e.y
                 distToTarget == hypot(dx, dy)
                 moveDistance == (e.baseSpeed * e.slowFactor * gs * dt) \div 20000
             IN  IF distToTarget <= moveDistance + 2
                 THEN LET e1 == [e EXCEPT !.x = target[1], !.y = target[2],
                                          !.waypoint = @ + 1]
                      IN  IF e1.waypoint >= Len(PathOf(e)) - 1
                          THEN reachEnd([c EXCEPT !.e = e1])
                          ELSE [c EXCEPT !.e = validatePosition(e1)]
                 ELSE LET e1 == [e EXCEPT
                                   !.x = @ + Quot(dx * moveDistance, distToTarget),
                                   !.y = @ + Quot(dy * moveDistance, distToTarget)]
                      IN  [c EXCEPT !.e = validatePosition(e1)]

\* update, lines 531-582: movement along the path (gs is gameSpeed)
EnemyMove(c, dt, gs) ==
    LET e == c.e
        target == nextTarget(e)
    IN  IF target = <<>>
        THEN IF e.waypoint >= Len(PathOf(e)) - 1 THEN reachEnd(c) ELSE c
        ELSE LET dx == target[1] - e.x
                 dy == target[2] - e.y
                 distToTarget == hypot(dx, dy)
                 moveDistance == (e.baseSpeed * e.slowFactor * gs * dt) \div 20000
             IN  IF distToTarget <= moveDistance + 2
                 THEN LET e1 == [e EXCEPT !.x = target[1], !.y = target[2],
                                          !.waypoint = @ + 1]
                      IN  IF e1.waypoint >= Len(PathOf(e)) - 1
                          THEN reachEnd([c EXCEPT !.e = e1])
                          ELSE LET remainingMove == moveDistance - distToTarget
                                   newTarget == nextTarget(e1)
                                   e2 == IF remainingMove > 0 /\ newTarget # <<>>
                                         THEN LET ndx == newTarget[1] - e1.x
                                                  ndy == newTarget[2] - e1.y
                                                  ndist == hypot(ndx, ndy)
                                                  adv == Min2(remainingMove, ndist)
                                              IN  IF ndist > 0
                                                  THEN [e1 EXCEPT
                                                          !.x = @ + Quot(ndx * adv, ndist),
                                                          !.y = @ + Quot(ndy * adv, ndist)]
                                                  ELSE e1
                                         ELSE e1
                               IN  [c EXCEPT !.e = validatePosition(e2)]
                 ELSE LET e1 == [e EXCEPT
                                   !.x = @ + Quot(dx * moveDistance, distToTarget),
                                   !.y = @ + Quot(dy * moveDistance, distToTarget)]
                      IN  [c EXCEPT !.e = validatePosition(e1)]

\* a faulty update that handles the stun before the slow timer, so that a
\* stunned enemy's slow does not decay
EnemyUpdate_StunFirst(c, dt, gs) ==
    IF ~c.e.alive THEN c
    ELSE LET c1 == EnemyBleed(c, dt)
         IN  IF c.e.bleedTimer > 0 /\ c1.e.hp <= 0 THEN c1
             ELSE IF c1.e.stunTimer > 0
                  THEN [c1 EXCEPT !.e.stunTimer = @ - dt]
                  ELSE EnemyMove([c1 EXCEPT !.e = EnemySlowDecay(c1.e, dt)], dt, gs)

\* Enemy.update(dt), lines 508-583
EnemyUpdate(c, dt, gs) ==
    IF ~c.e.alive THEN c
    ELSE LET c1 == EnemyBleed(c, dt)
         IN  IF c.e.bleedTimer > 0 /\ c1.e.hp <= 0 THEN c1
             ELSE LET e2 == EnemySlowDecay(c1.e, dt)
                  IN  IF e2.stunTimer > 0
                      THEN [c1 EXCEPT !.e = [e2 EXCEPT !.stunTimer = @ - dt]]
                      ELSE EnemyMove([c1 EXCEPT !.e = e2], dt, gs)

(***************************************************************************)
(* What towers and effects do to one enemy they reach (the body of their   *)
(* loop over enemies, without the range test).                             *)
(***************************************************************************)
\* ProtoceratopsTower.update, lines 1091-1092: damage 7, stagger 0.2 s
ProtoceratopsHit(c) ==
    LET c1 == takeDamage(c, 7 * 200)
    IN  [c1 EXCEPT !.e = applyStun(c1.e, 4)]

\* BrachiosaurusTower.update, lines 747-752: slow 0.6 for 0.3 s, 1.5 dps
BrachiosaurusHit(c, dt) ==
    IF ~c.e.alive THEN c
    ELSE LET e1 == applySlow(c.e, 60, 6)
             e2 == [e1 EXCEPT !.hp = @ - 15 * dt]
             c2 == [c EXCEPT !.e = e2]
         IN  IF e2.hp <= 0 THEN die(c2) ELSE c2

\* AcidPool.update, lines 1370-1375 for a pool [dps, slow]: slow for 0.5 s, dps * dt
AcidPoolHit(c, pool, dt) ==
    IF ~c.e.alive THEN c
    ELSE LET e1 == applySlow(c.e, pool.slow, 10)
             e2 == [e1 EXCEPT !.hp = @ - pool.dps * dt]
             c2 == [c EXCEPT !.e = e2]
         IN  IF e2.hp <= 0 THEN die(c2) ELSE c2

\* HomingLeap.update, lines 1262-1263 for a RaptorNest leap: impact 8, bleed 6 dps for 3 s
HomingLeapHit(c) ==
    LET c1 == takeDamage(c, 8 * 200)
    IN  [c1 EXCEPT !.e = applyBleed(c1.e, 60, 60)]

(***************************************************************************)
(* The program state as one record, so that a handler is a function from   *)
(* state to state and handlers that call each other compose.               *)
(***************************************************************************)
S ==
    [money |-> money, lives |-> lives, wave |-> wave, gameSpeed |-> gameSpeed,
     autoNextTimerId |-> autoNextTimerId, autoNextTimeouts |-> autoNextTimeouts,
     isPaused |-> isPaused,
     previousGameSpeed |-> previousGameSpeed, previewPos |-> previewPos,
     selectedType |-> selectedType, currentMapId |-> currentMapId,
     gameSettings |-> gameSettings, autoNextChecked |-> autoNextChecked,
     ENEMY_ID_SEQ |-> ENEMY_ID_SEQ, enemies |-> enemies, towers |-> towers,
     acidPools |-> acidPools, spawning |-> spawning, spawnTimerId |-> spawnTimerId,
     spawnJob |-> spawnJob, rafPending |-> rafPending, rafRunning |-> rafRunning,
     menuOpen |-> menuOpen, raptorLeaps |-> raptorLeaps, rushStrikes |-> rushStrikes,
     spits |-> spits, spikes |-> spikes]

Commit(next) ==
    \E s \in {next} :
        /\ money' = s.money
        /\ lives' = s.lives
        /\ wave' = s.wave
        /\ gameSpeed' = s.gameSpeed
        /\ autoNextTimerId' = s.autoNextTimerId
        /\ autoNextTimeouts' = s.autoNextTimeouts
        /\ isPaused' = s.isPaused
        /\ previousGameSpeed' = s.previousGameSpeed
        /\ previewPos' = s.previewPos
        /\ selectedType' = s.selectedType
        /\ currentMapId' = s.currentMapId
        /\ gameSettings' = s.gameSettings
        /\ autoNextChecked' = s.autoNextChecked
        /\ ENEMY_ID_SEQ' = s.ENEMY_ID_SEQ
        /\ enemies' = s.enemies
        /\ towers' = s.towers
        /\ acidPools' = s.acidPools
        /\ spawning' = s.spawning
        /\ spawnTimerId' = s.spawnTimerId
        /\ spawnJob' = s.spawnJob
        /\ rafPending' = s.rafPending
        /\ rafRunning' = s.rafRunning
        /\ menuOpen' = s.menuOpen
        /\ raptorLeaps' = s.raptorLeaps
        /\ rushStrikes' = s.rushStrikes
        /\ spits' = s.spits
        /\ spikes' = s.spikes
        /\ vfx' = vfx

NoJob == [count |-> 0, spawned |-> 0, baseHp |-> 0, baseSpeed |-> 0]

\* the state once main.js has run to its end (lines 179-188, 366, 1431-1432, 2124-2128, 2170)
InitialState ==
    [money |-> DefaultSettings.startingMoney, lives |-> DefaultSettings.startingLives,
     wave |-> 0, gameSpeed |-> 1, autoNextTimerId |-> FALSE, autoNextTimeouts |-> 0,
     isPaused |-> FALSE,
     previousGameSpeed |-> 1, previewPos |-> <<>>, selectedType |-> "RaptorNest",
     currentMapId |-> "jungle", gameSettings |-> DefaultSettings,
     autoNextChecked |-> FALSE, ENEMY_ID_SEQ |-> 1, enemies |-> <<>>, towers |-> <<>>,
     acidPools |-> <<>>, spawning |-> FALSE, spawnTimerId |-> FALSE, spawnJob |-> NoJob,
     rafPending |-> 1, rafRunning |-> 0, menuOpen |-> TRUE,
     raptorLeaps |-> <<>>, rushStrikes |-> <<>>, spits |-> <<>>, spikes |-> <<>>]

(***************************************************************************)
(* Path selection and placement geometry.                                  *)
(***************************************************************************)
RECURSIVE PickPath_NotNormalised(_, _, _, _)
\* a faulty loop that compares the draw with the weights as they are (in per cent)
PickPath_NotNormalised(weights, r, i, cumulative) ==
    IF i > Len(weights) THEN Len(weights) - 1
    ELSE IF r * 100 < 1000 * (cumulative + weights[i]) THEN i - 1
    ELSE PickPath_NotNormalised(weights, r, i + 1, cumulative + weights[i])

RECURSIVE PickPath(_, _, _, _)
\* the for loop of selectPathByWeight: cumulative is the sum of weights[1..i-1]
PickPath(weights, r, i, cumulative) ==
    IF i > Len(weights) THEN Len(weights) - 1
    ELSE IF r * SumSeq(weights) < 1000 * (cumulative + weights[i]) THEN i - 1
    ELSE PickPath(weights, r, i + 1, cumulative + weights[i])

\* selectPathByWeight() among n paths with the given weights, Math.random() = r / 1000
selectPathAmong(n, weights, r) ==
    IF n = 1 THEN 0 ELSE PickPath(weights, r, 1, 0)

\* selectPathByWeight() with Math.random() = r / 1000
selectPathByWeight(r) == selectPathAmong(Len(paths), pathWeights, r)

buffer == 24

\* one iteration of the loops of isOnPath: is (x, y) nearer than buffer to segment a-b
NearSegment(x, y, a, b) ==
    LET px == b[1] - a[1]
        py == b[2] - a[2]
        lenSq == px * px + py * py
        dot == (x - a[1]) * px + (y - a[2]) * py
        \* clampT = tNum / lenSq
        tNum == Max2(0, Min2(lenSq, dot))
        projX == a[1] + Quot(tNum * px, lenSq)
        projY == a[2] + Quot(tNum * py, lenSq)
        ddx == projX - x
        ddy == projY - y
    IN  lenSq > 0 /\ ddx * ddx + ddy * ddy < buffer * buffer

\* isOnPath(x, y) against the path set ps
OnPathOf(ps, x, y) ==
    \E k \in 1..Len(ps) : \E i \in 1..(Len(ps[k]) - 1) :
        NearSegment(x, y, ps[k][i], ps[k][i + 1])

isOnPath(x, y) == OnPathOf(paths, x, y)

\* a faulty search in which a later enemy at the same distance replaces the best
RECURSIVE NearestFrom_LastWins(_, _, _, _, _, _, _)
NearestFrom_LastWins(x, y, range, es, i, best, bestDSq) ==
    IF i > Len(es) THEN best
    ELSE LET e == es[i]
             dSq == (e.x - x) * (e.x - x) + (e.y - y) * (e.y - y)
         IN  IF e.alive /\ dSq <= range * range /\ (best = 0 \/ dSq <= bestDSq)
             THEN NearestFrom_LastWins(x, y, range, es, i + 1, i, dSq)
             ELSE NearestFrom_LastWins(x, y, range, es, i + 1, best, bestDSq)

\* findNearestEnemy: the index of the nearest living enemy within range, 0 for null
RECURSIVE NearestFrom(_, _, _, _, _, _, _)
NearestFrom(x, y, range, es, i, best, bestDSq) ==
    IF i > Len(es) THEN best
    ELSE LET e == es[i]
             dSq == (e.x - x) * (e.x - x) + (e.y - y) * (e.y - y)
         IN  IF e.alive /\ dSq <= range * range /\ (best = 0 \/ dSq < bestDSq)
             THEN NearestFrom(x, y, range, es, i + 1, i, dSq)
             ELSE NearestFrom(x, y, range, es, i + 1, best, bestDSq)
findNearestEnemy(x, y, range, es) == NearestFrom(x, y, range, es, 1, 0, 0)

(***************************************************************************)
(* Wave spawner (main.js:1431-1496).                                       *)
(***************************************************************************)
\* towers.filter(t => t instanceof StonklodonTower).length
StonkCount(ts) == Cardinality({k \in 1..Len(ts) : ts[k].type = "Stonklodon"})

\* 6 + Math.floor(wave * 1.2)
BaseCount(w) == 6 + (12 * w) \div 10

\* a faulty count that truncates instead of rounding
WaveCount_Truncated(w, countMult) ==
    Max2(1, (BaseCount(w) * (IF countMult = 0 THEN 100 ELSE countMult)) \div 100)

\* Math.max(1, Math.round(baseCount * (mapModifiers.countMult || 1)))
WaveCount(w, countMult) ==
    Max2(1, RoundDiv(BaseCount(w) * (IF countMult = 0 THEN 100 ELSE countMult), 100))

\* baseHp in hundredths of hp: (20 + 10*wave + max(0, wave-10)*6) * hpMult
WaveBaseHp(w) == (20 + 10 * w + Max2(0, w - 10) * 6) * getDifficultyModifiers.hpMult
\* baseSpeed in hundredths of px/s: (50 + 4*wave) * speedMult
WaveBaseSpeed(w) == (50 + 4 * w) * getDifficultyModifiers.speedMult

\* a faulty startNextWave that does not test spawning
startNextWave_NoGuard(s) ==
    LET stonkCount == StonkCount(s.towers)
        paid == IF stonkCount > 0 THEN s.money + 3 * stonkCount ELSE s.money
        rewarded == IF s.wave > 0 THEN paid + s.gameSettings.waveReward ELSE paid
        w == s.wave + 1
    IN  [s EXCEPT !.money = rewarded,
                  !.wave = w,
                  !.spawning = TRUE,
                  !.spawnTimerId = TRUE,
                  !.spawnJob = [count |-> WaveCount(w, MAPS[s.currentMapId].modifiers.countMult),
                                spawned |-> 0,
                                baseHp |-> WaveBaseHp(w),
                                baseSpeed |-> WaveBaseSpeed(w)]]

\* a faulty startNextWave that pays the wave bonus for the first wave too
startNextWave_BonusAlways(s) ==
    IF s.spawning THEN s
    ELSE LET stonkCount == StonkCount(s.towers)
             w == s.wave + 1
         IN  [s EXCEPT !.money = @ + 3 * stonkCount + s.gameSettings.waveReward,
                       !.wave = w,
                       !.spawning = TRUE,
                       !.spawnTimerId = TRUE,
                       !.spawnJob = [count |-> WaveCount(w, MAPS[s.currentMapId].modifiers.countMult),
                                     spawned |-> 0,
                                     baseHp |-> WaveBaseHp(w),
                                     baseSpeed |-> WaveBaseSpeed(w)]]

startNextWave(s) ==
    IF s.spawning THEN s
    ELSE LET stonkCount == StonkCount(s.towers)
             paid == IF stonkCount > 0 THEN s.money + 3 * stonkCount ELSE s.money
             rewarded == IF s.wave > 0 THEN paid + s.gameSettings.waveReward ELSE paid
             w == s.wave + 1
         IN  [s EXCEPT !.money = rewarded,
                       !.wave = w,
                       !.spawning = TRUE,
                       !.spawnTimerId = TRUE,
                       !.spawnJob = [count |-> WaveCount(w, MAPS[s.currentMapId].modifiers.countMult),
                                     spawned |-> 0,
                                     baseHp |-> WaveBaseHp(w),
                                     baseSpeed |-> WaveBaseSpeed(w)]]

\* a faulty interval callback that spawns one regular enemy too many
SpawnTick_OneMore(s, rElite, rSteam, rPath) ==
    LET job == s.spawnJob
    IN  IF job.spawned > job.count
        THEN [s EXCEPT !.spawnTimerId = FALSE, !.spawning = FALSE]
        ELSE [s EXCEPT !.enemies = Append(@, Enemy(s.ENEMY_ID_SEQ, 200, 500, 0, s.currentMapId)),
                       !.ENEMY_ID_SEQ = @ + 1,
                       !.spawnJob.spawned = @ + 1]

\* the setInterval callback (lines 1469-1495); rElite, rSteam, rPath are the
\* Math.random() draws in per mille
SpawnTick(s, rElite, rSteam, rPath) ==
    LET job == s.spawnJob
    IN  IF job.spawned >= job.count
        THEN LET cleared == [s EXCEPT !.spawnTimerId = FALSE, !.spawning = FALSE]
             IN  IF s.wave >= 7 /\ s.wave % 7 = 0
                 THEN LET bossHp == RoundDiv(job.baseHp * 8, 100)
                          bossSpeed == Max2(35, RoundDiv(job.baseSpeed * 85, 10000))
                          tank == [Enemy(s.ENEMY_ID_SEQ, bossHp * 200, bossSpeed * 10,
                                         selectPathByWeight(rPath), s.currentMapId)
                                   EXCEPT !.radius = 14]
                      IN  [cleared EXCEPT !.enemies = Append(@, tank),
                                          !.ENEMY_ID_SEQ = @ + 1]
                 ELSE cleared
        ELSE LET eliteChance == Min2(50 + s.wave * 5, 350)
                 steamEliteChance == Min2(20 + s.wave * 3, 200)
                 elite == rElite < eliteChance
                 steamElite == ~elite /\ rSteam < steamEliteChance
                 hp == RoundDiv(job.baseHp * (IF steamElite THEN 22 ELSE IF elite THEN 14 ELSE 10),
                                1000)
                 speed == (job.baseSpeed * (IF steamElite THEN 105 ELSE IF elite THEN 120 ELSE 100))
                              \div 1000
                 e0 == Enemy(s.ENEMY_ID_SEQ, hp * 200, speed,
                             selectPathByWeight(rPath), s.currentMapId)
                 e == IF steamElite THEN [e0 EXCEPT !.radius = 12] ELSE e0
             IN  [s EXCEPT !.enemies = Append(@, e),
                           !.ENEMY_ID_SEQ = @ + 1,
                           !.spawnJob.spawned = @ + 1]

(***************************************************************************)
(* Input handlers (main.js:1499-1612, 1793-1927).                          *)
(***************************************************************************)
\* the tower classes' constructors, as far as the simulation reads them
Tower(type, x, y) == [type |-> type, x |-> x, y |-> y, cooldown |-> 0]

placeTower(s, type, x, y) ==
    [s EXCEPT !.towers =
        Append(@, Tower(IF type \in DOMAIN TOWER_TYPES THEN type ELSE "RaptorNest", x, y))]

\* canvas 'mousemove'
MouseMove(s, p) == [s EXCEPT !.previewPos = p]

\* a faulty click handler that does not look at money
CanvasClick_NoFundsCheck(s) ==
    IF s.previewPos = <<>> THEN s
    ELSE IF OnPathOf(MapPaths(s.currentMapId), s.previewPos[1], s.previewPos[2]) THEN s
    ELSE LET placed == placeTower(s, s.selectedType, s.previewPos[1], s.previewPos[2])
         IN  [placed EXCEPT !.money = @ - TOWER_TYPES[s.selectedType].cost]

\* canvas 'click'
CanvasClick(s) ==
    IF s.previewPos = <<>> THEN s
    ELSE IF OnPathOf(MapPaths(s.currentMapId), s.previewPos[1], s.previewPos[2]) THEN s
    ELSE IF s.money < TOWER_TYPES[s.selectedType].cost THEN s
    ELSE LET placed == placeTower(s, s.selectedType, s.previewPos[1], s.previewPos[2])
         IN  [placed EXCEPT !.money = @ - TOWER_TYPES[s.selectedType].cost]

\* .towerBtn 'click'
SelectTower(s, type) == [s EXCEPT !.selectedType = type]

\* fastBtn 'click'
FastBtn(s) == [s EXCEPT !.gameSpeed = IF s.gameSpeed = 1 THEN 2 ELSE 1]

loadMap(s, id) == IF id \notin MapIds THEN s ELSE [s EXCEPT !.currentMapId = id]

\* a faulty restartGame that leaves the spawner's interval running
restartGame_KeepsSpawner(s) ==
    [s EXCEPT !.spawning = FALSE,
              !.autoNextTimerId = FALSE,
              !.autoNextTimeouts = IF s.autoNextTimerId THEN @ - 1 ELSE @,
              !.enemies = <<>>, !.towers = <<>>, !.raptorLeaps = <<>>,
              !.rushStrikes = <<>>, !.spits = <<>>, !.acidPools = <<>>, !.spikes = <<>>,
              !.money = s.gameSettings.startingMoney,
              !.lives = s.gameSettings.startingLives,
              !.wave = 0, !.gameSpeed = 1,
              !.rafPending = @ + 1]

\* restartGame (lines 1793-1823)
restartGame(s) ==
    [s EXCEPT !.spawnTimerId = FALSE, !.spawning = FALSE,
              !.autoNextTimerId = FALSE,
              !.autoNextTimeouts = IF s.autoNextTimerId THEN @ - 1 ELSE @,
              !.enemies = <<>>, !.towers = <<>>, !.raptorLeaps = <<>>,
              !.rushStrikes = <<>>, !.spits = <<>>, !.acidPools = <<>>, !.spikes = <<>>,
              !.money = s.gameSettings.startingMoney,
              !.lives = s.gameSettings.startingLives,
              !.wave = 0, !.gameSpeed = 1,
              !.rafPending = @ + 1]

pauseGame(s) ==
    IF ~s.isPaused
    THEN [s EXCEPT !.isPaused = TRUE, !.previousGameSpeed = s.gameSpeed, !.gameSpeed = 0]
    ELSE s

resumeGame(s) ==
    IF s.isPaused
    THEN [s EXCEPT !.isPaused = FALSE, !.gameSpeed = s.previousGameSpeed]
    ELSE s

hideMainMenuAndModals(s) ==
    LET hidden == [s EXCEPT !.menuOpen = FALSE]
    IN  IF hidden.isPaused THEN resumeGame(hidden) ELSE hidden

\* pauseBtn 'click', and Escape or P while the menu is hidden
showMainMenuAsPause(s) == [pauseGame(s) EXCEPT !.menuOpen = TRUE]

\* startBtn 'click'
StartBtn(s) == startNextWave([s EXCEPT !.menuOpen = FALSE])

\* mapListEl 'click' on the entry of map id
MapListClick(s, id) == loadMap(s, id)

\* menuPlayBtn 'click'
MenuPlay(s) ==
    IF s.isPaused THEN hideMainMenuAndModals(s)
    ELSE startNextWave(restartGame(loadMap(hideMainMenuAndModals(s), s.currentMapId)))

\* menuCloseBtn 'click', and Escape or P while the menu is shown
MenuClose(s) == hideMainMenuAndModals(s)

\* the options dialog's save button, as far as the simulation reads it
SaveOptions(s, difficulty) == [s EXCEPT !.gameSettings.difficulty = difficulty]

(***************************************************************************)
(* The tick (main.js:1658-1717).                                           *)
(***************************************************************************)
\* enemy i with the globals its methods write
Ctx(s, i) == [e |-> s.enemies[i], money |-> s.money, lives |-> s.lives]
SetEnemy(s, i, c) == [s EXCEPT !.enemies[i] = c.e, !.money = c.money, !.lives = c.lives]

\* for (const e of enemies) e.update(dt)
RECURSIVE UpdateEnemies(_, _, _)
UpdateEnemies(s, i, dt) ==
    IF i > Len(s.enemies) THEN s
    ELSE UpdateEnemies(SetEnemy(s, i, EnemyUpdate(Ctx(s, i), dt, s.gameSpeed)), i + 1, dt)

\* a faulty update that does not wait for the cooldown
ProtoceratopsUpdate_NoWait(s, k, dt) ==
    LET t == s.towers[k]
        cd == t.cooldown - dt * s.gameSpeed
        target == findNearestEnemy(t.x, t.y, TOWER_TYPES.Protoceratops.range, s.enemies)
    IN  IF target # 0
        THEN [SetEnemy(s, target, ProtoceratopsHit(Ctx(s, target)))
                 EXCEPT !.towers[k].cooldown = 22]
        ELSE [s EXCEPT !.towers[k].cooldown = cd]

\* ProtoceratopsTower.update (lines 1087-1096), fireRate 1.1 s
ProtoceratopsUpdate(s, k, dt) ==
    LET t == s.towers[k]
        cd == t.cooldown - dt * s.gameSpeed
    IN  IF cd > 0 THEN [s EXCEPT !.towers[k].cooldown = cd]
        ELSE LET target == findNearestEnemy(t.x, t.y, TOWER_TYPES.Protoceratops.range,
                                            s.enemies)
             IN  IF target # 0
                 THEN [SetEnemy(s, target, ProtoceratopsHit(Ctx(s, target)))
                          EXCEPT !.towers[k].cooldown = 22]
                 ELSE [s EXCEPT !.towers[k].cooldown = cd]

\* BrachiosaurusTower.update (lines 744-755): the aura, from enemy i on
RECURSIVE BrachiosaurusFrom(_, _, _, _)
BrachiosaurusFrom(s, k, i, dt) ==
    IF i > Len(s.enemies) THEN s
    ELSE LET t == s.towers[k]
             e == s.enemies[i]
             dSq == (e.x - t.x) * (e.x - t.x) + (e.y - t.y) * (e.y - t.y)
             r == TOWER_TYPES.Brachiosaurus.range
         IN  IF e.alive /\ dSq <= r * r
             THEN BrachiosaurusFrom(SetEnemy(s, i, BrachiosaurusHit(Ctx(s, i), dt)),
                                    k, i + 1, dt)
             ELSE BrachiosaurusFrom(s, k, i + 1, dt)

\* Angles are whole degrees in (-180, 180]; Math.cos and Math.sin are per mille
\* (exact on the four axis directions), Math.atan2 is the whole degree below the
\* angle within its quadrant.
\* 1000 * sin(d) for d = 0 .. 90 degrees
SinTable ==
    <<0, 17, 35, 52, 70, 87, 105, 122, 139, 156, 174, 191, 208,
      225, 242, 259, 276, 292, 309, 326, 342, 358, 375, 391, 407, 423,
      438, 454, 469, 485, 500, 515, 530, 545, 559, 574, 588, 602, 616,
      629, 643, 656, 669, 682, 695, 707, 719, 731, 743, 755, 766, 777,
      788, 799, 809, 819, 829, 839, 848, 857, 866, 875, 883, 891, 899,
      906, 914, 921, 927, 934, 940, 946, 951, 956, 961, 966, 970, 974,
      978, 982, 985, 988, 990, 993, 995, 996, 998, 999, 999, 1000, 1000>>
cos(angle) ==
    IF Abs(angle) <= 90 THEN SinTable[90 - Abs(angle) + 1] ELSE -SinTable[Abs(angle) - 90 + 1]
sin(angle) ==
    LET up == IF Abs(angle) <= 90 THEN SinTable[Abs(angle) + 1] ELSE SinTable[180 - Abs(angle) + 1]
    IN  IF angle >= 0 THEN up ELSE -up
\* the largest whole degree in lo .. hi whose tangent is at most dy / dx (dx, dy > 0)
RECURSIVE AtanSearch(_, _, _, _)
AtanSearch(dx, dy, lo, hi) ==
    IF lo >= hi THEN lo
    ELSE LET mid == (lo + hi + 1) \div 2
         IN  IF sin(mid) * dx <= cos(mid) * dy THEN AtanSearch(dx, dy, mid, hi)
             ELSE AtanSearch(dx, dy, lo, mid - 1)
angleBetween(ax, ay, bx, by) ==
    CASE by = ay /\ bx >= ax -> 0
      [] bx = ax /\ by > ay -> 90
      [] by = ay /\ bx < ax -> 180
      [] bx = ax /\ by < ay -> -90
      [] OTHER -> LET a0 == AtanSearch(Abs(bx - ax), Abs(by - ay), 0, 89)
                  IN  CASE bx > ax /\ by > ay -> a0
                        [] bx < ax /\ by > ay -> 180 - a0
                        [] bx < ax /\ by < ay -> a0 - 180
                        [] bx > ax /\ by < ay -> -a0

\* class AcidPool (lines 1360-1364)
AcidPool(x, y, radius, duration, dps, slowFactor) ==
    [x |-> x, y |-> y, radius |-> radius, timer |-> duration, dps |-> dps,
     slow |-> slowFactor, alive |-> TRUE]

\* class SpitProjectile (lines 1324-1329); onExplode is the closure of
\* DilophosaurusTower.update, kept as the tower's pool parameters, or <<>>
SpitProjectile(x, y, target, speed, impact, onExplode) ==
    [x |-> x, y |-> y, target |-> target.id, speed |-> speed, impact |-> impact,
     onExplode |-> onExplode, alive |-> TRUE,
     angle |-> angleBetween(x, y, target.x, target.y)]

\* the closure of DilophosaurusTower.update: radius 60, 4 s, 8 hp/s, slow 0.7
DilophosaurusPool == [poolRadius |-> 60, poolDuration |-> 80, poolDps |-> 80, poolSlow |-> 70]

\* AnkylosaurusTower.update (lines 1048-1054): the slam, from enemy i on:
\* damage 18, stun 0.25 s, knockback 42 within slamRadius 85
RECURSIVE AnkylosaurusFrom(_, _, _)
AnkylosaurusFrom(s, k, i) ==
    IF i > Len(s.enemies) THEN s
    ELSE LET t == s.towers[k]
             e == s.enemies[i]
         IN  IF e.alive /\ (e.x - t.x) * (e.x - t.x) + (e.y - t.y) * (e.y - t.y) <= 85 * 85
             THEN LET c1 == takeDamage(Ctx(s, i), 3600)
                      c2 == [c1 EXCEPT !.e = knockback(applyStun(c1.e, 5), 42)]
                  IN  AnkylosaurusFrom(SetEnemy(s, i, c2), k, i + 1)
             ELSE AnkylosaurusFrom(s, k, i + 1)

\* AnkylosaurusTower.update (lines 1042-1057), fireRate 2.1 s
AnkylosaurusUpdate(s, k, dt) ==
    LET t == s.towers[k]
        cd == t.cooldown - dt * s.gameSpeed
    IN  IF cd > 0 THEN [s EXCEPT !.towers[k].cooldown = cd]
        ELSE LET target == findNearestEnemy(t.x, t.y, TOWER_TYPES.Ankylosaurus.range,
                                            s.enemies)
             IN  IF target # 0
                 THEN [AnkylosaurusFrom(s, k, 1) EXCEPT !.towers[k].cooldown = 42]
                 ELSE [s EXCEPT !.towers[k].cooldown = cd]

\* TRexTower.update (lines 916-921): stun 0.6 s on the living enemies within
\* stunRadius 80 of the point (x, y) of the target, from enemy i on
RECURSIVE TRexFrom(_, _, _, _)
TRexFrom(s, x, y, i) ==
    IF i > Len(s.enemies) THEN s
    ELSE LET e == s.enemies[i]
         IN  IF e.alive /\ (e.x - x) * (e.x - x) + (e.y - y) * (e.y - y) <= 80 * 80
             THEN TRexFrom([s EXCEPT !.enemies[i] = applyStun(e, 12)], x, y, i + 1)
             ELSE TRexFrom(s, x, y, i + 1)

\* TRexTower.update (lines 909-925): fireRate 2.2 s, biteDamage 40
TRexUpdate(s, k, dt) ==
    LET t == s.towers[k]
        cd == t.cooldown - dt * s.gameSpeed
    IN  IF cd > 0 THEN [s EXCEPT !.towers[k].cooldown = cd]
        ELSE LET target == findNearestEnemy(t.x, t.y, TOWER_TYPES.TRex.range, s.enemies)
             IN  IF target # 0
                 THEN LET s1 == SetEnemy(s, target, takeDamage(Ctx(s, target), 8000))
                      IN  [TRexFrom(s1, s.enemies[target].x, s.enemies[target].y, 1)
                              EXCEPT !.towers[k].cooldown = 44]
                 ELSE [s EXCEPT !.towers[k].cooldown = cd]

\* DilophosaurusTower.update (lines 787-797): fireRate 1.3 s, spitSpeed 380, impact 6
DilophosaurusUpdate(s, k, dt) ==
    LET t == s.towers[k]
        cd == t.cooldown - dt * s.gameSpeed
    IN  IF cd > 0 THEN [s EXCEPT !.towers[k].cooldown = cd]
        ELSE LET target == findNearestEnemy(t.x, t.y, TOWER_TYPES.Dilophosaurus.range,
                                            s.enemies)
             IN  IF target # 0
                 THEN [s EXCEPT !.spits = Append(@, SpitProjectile(t.x, t.y, s.enemies[target],
                                                                   3800, 1200, DilophosaurusPool)),
                                !.towers[k].cooldown = 26]
                 ELSE [s EXCEPT !.towers[k].cooldown = cd]

\* t.update(dt, enemies) for the tower classes the model places
TowerUpdate(s, k, dt) ==
    CASE s.towers[k].type = "Protoceratops" -> ProtoceratopsUpdate(s, k, dt)
      [] s.towers[k].type = "Brachiosaurus" -> BrachiosaurusFrom(s, k, 1, dt)
      [] s.towers[k].type = "Dilophosaurus" -> DilophosaurusUpdate(s, k, dt)
      [] s.towers[k].type = "Ankylosaurus" -> AnkylosaurusUpdate(s, k, dt)
      [] s.towers[k].type = "TRex" -> TRexUpdate(s, k, dt)
      [] s.towers[k].type = "Stonklodon" -> s

RECURSIVE UpdateTowers(_, _, _)
UpdateTowers(s, k, dt) ==
    IF k > Len(s.towers) THEN s
    ELSE UpdateTowers(TowerUpdate(s, k, dt), k + 1, dt)

\* AcidPool.update (lines 1365-1378): the loop over enemies, from enemy i on
RECURSIVE AcidPoolFrom(_, _, _, _)
AcidPoolFrom(s, k, i, dt) ==
    IF i > Len(s.enemies) THEN s
    ELSE LET p == s.acidPools[k]
             e == s.enemies[i]
             dSq == (e.x - p.x) * (e.x - p.x) + (e.y - p.y) * (e.y - p.y)
         IN  IF e.alive /\ dSq <= p.radius * p.radius
             THEN AcidPoolFrom(SetEnemy(s, i, AcidPoolHit(Ctx(s, i), p, dt)), k, i + 1, dt)
             ELSE AcidPoolFrom(s, k, i + 1, dt)

\* a faulty pool that takes itself out of the list when its time is over
AcidPoolUpdate_Splice(s, k, dt) ==
    IF ~s.acidPools[k].alive THEN s
    ELSE LET timed == [s EXCEPT !.acidPools[k].timer = @ - dt]
         IN  IF timed.acidPools[k].timer <= 0
             THEN [timed EXCEPT !.acidPools = SubSeq(@, 1, k - 1) \o SubSeq(@, k + 1, Len(@))]
             ELSE AcidPoolFrom(timed, k, 1, dt)

\* a faulty pool whose time does not run
AcidPoolUpdate_NoTimer(s, k, dt) ==
    IF ~s.acidPools[k].alive THEN s
    ELSE AcidPoolFrom(s, k, 1, dt)

\* AcidPool.update (lines 1365-1378)
AcidPoolUpdate(s, k, dt) ==
    IF ~s.acidPools[k].alive THEN s
    ELSE LET timed == [s EXCEPT !.acidPools[k].timer = @ - dt]
         IN  IF timed.acidPools[k].timer <= 0
             THEN [timed EXCEPT !.acidPools[k].alive = FALSE]
             ELSE AcidPoolFrom(timed, k, 1, dt)

RECURSIVE UpdateAcidPools(_, _, _)
UpdateAcidPools(s, k, dt) ==
    IF k > Len(s.acidPools) THEN s
    ELSE UpdateAcidPools(AcidPoolUpdate(s, k, dt), k + 1, dt)

\* canvas.width and canvas.height of the page
W == 800
H == 450

wrapAngle(a) == IF a <= -180 THEN a + 360 ELSE IF a > 180 THEN a - 360 ELSE a
lerpAngle(a, b, maxStep) == a + Max2(-maxStep, Min2(maxStep, wrapAngle(b - a)))
\* a turn rate in rad/s times dt times gameSpeed, in degrees (1 rad = 57.3 degrees)
TurnStep(rate, dt, gs) == Quot(rate * 573 * dt * gs, 200)

\* x < -40 || x > W+40 || y < -40 || y > H+40
OutOfBounds(o) == o.x < -40 \/ o.x > W + 40 \/ o.y < -40 \/ o.y > H + 40

\* speed (tenths of px/s) * dt * gameSpeed, in whole pixels
EffectStep(speed, dt, gs) == Quot(speed * dt * gs, 200)

\* the index in s.enemies of the enemy object with this id, 0 once it has been
\* pruned (only enemies that are not alive are pruned)
TargetIndex(s, id) ==
    IF \E i \in 1..Len(s.enemies) : s.enemies[i].id = id
    THEN CHOOSE i \in 1..Len(s.enemies) : s.enemies[i].id = id
    ELSE 0
TargetAlive(s, id) == TargetIndex(s, id) # 0 /\ s.enemies[TargetIndex(s, id)].alive

\* class HomingLeap (lines 1237-1250); target is the id of the target enemy
HomingLeap(x, y, target, speed, impact, bleedDps, bleedDur) ==
    [x |-> x, y |-> y, target |-> target.id, speed |-> speed, impact |-> impact,
     bleedDps |-> bleedDps, bleedDur |-> bleedDur, alive |-> TRUE,
     angle |-> angleBetween(x, y, target.x, target.y)]

\* HomingLeap.update (lines 1251-1268)
HomingLeapUpdate(s, k, dt) ==
    IF ~s.raptorLeaps[k].alive THEN s
    ELSE IF ~TargetAlive(s, s.raptorLeaps[k].target)
    THEN [s EXCEPT !.raptorLeaps[k].alive = FALSE]
    ELSE LET p       == s.raptorLeaps[k]
             i       == TargetIndex(s, p.target)
             t       == s.enemies[i]
             desired == angleBetween(p.x, p.y, t.x, t.y)
             angle   == wrapAngle(lerpAngle(p.angle, desired, TurnStep(8, dt, s.gameSpeed)))
             move    == EffectStep(p.speed, dt, s.gameSpeed)
             x       == p.x + Quot(cos(angle) * move, 1000)
             y       == p.y + Quot(sin(angle) * move, 1000)
             moved   == [s EXCEPT !.raptorLeaps[k].angle = angle,
                                  !.raptorLeaps[k].x = x, !.raptorLeaps[k].y = y]
             hit     == IF hypot(x - t.x, y - t.y) < t.radius + 8
                        THEN LET c1 == takeDamage(Ctx(moved, i), p.impact)
                                 c2 == [c1 EXCEPT !.e = applyBleed(c1.e, p.bleedDps, p.bleedDur)]
                             IN  [SetEnemy(moved, i, c2) EXCEPT !.raptorLeaps[k].alive = FALSE]
                        ELSE moved
         IN  IF OutOfBounds(hit.raptorLeaps[k])
             THEN [hit EXCEPT !.raptorLeaps[k].alive = FALSE]
             ELSE hit

RECURSIVE UpdateLeaps(_, _, _)
UpdateLeaps(s, k, dt) ==
    IF k > Len(s.raptorLeaps) THEN s
    ELSE UpdateLeaps(HomingLeapUpdate(s, k, dt), k + 1, dt)

\* class RushStrike (lines 1273-1279); hitSet is a set of enemy ids
RushStrike(x, y, angle, speed, length, stunDur, knock, damage) ==
    [x |-> x, y |-> y, angle |-> angle, speed |-> speed, left |-> length,
     stunDur |-> stunDur, knockback |-> knock, damage |-> damage, alive |-> TRUE,
     hitSet |-> {}]

\* takeDamage, applyStun and knockback on enemy i, and its id added to hitSet
RushHit(s, k, i) ==
    LET r  == s.rushStrikes[k]
        c1 == takeDamage(Ctx(s, i), r.damage)
        c2 == [c1 EXCEPT !.e = knockback(applyStun(c1.e, r.stunDur), r.knockback)]
    IN  [SetEnemy(s, i, c2) EXCEPT !.rushStrikes[k].hitSet = @ \cup {s.enemies[i].id}]

\* a faulty loop that does not consult hitSet
RECURSIVE RushFrom_NoHitSet(_, _, _)
RushFrom_NoHitSet(s, k, i) ==
    IF i > Len(s.enemies) THEN s
    ELSE LET r == s.rushStrikes[k]
             e == s.enemies[i]
         IN  IF e.alive /\ hypot(e.x - r.x, e.y - r.y) < 18
             THEN RushFrom_NoHitSet(RushHit(s, k, i), k, i + 1)
             ELSE RushFrom_NoHitSet(s, k, i + 1)

\* RushStrike.update, lines 1294-1307: the loop over enemies, from enemy i on
RECURSIVE RushFrom(_, _, _)
RushFrom(s, k, i) ==
    IF i > Len(s.enemies) THEN s
    ELSE LET r == s.rushStrikes[k]
             e == s.enemies[i]
         IN  IF e.alive /\ e.id \notin r.hitSet /\ hypot(e.x - r.x, e.y - r.y) < 18
             THEN RushFrom(RushHit(s, k, i), k, i + 1)
             ELSE RushFrom(s, k, i + 1)

\* RushStrike.update (lines 1281-1310)
RushUpdate(s, k, dt) ==
    IF ~s.rushStrikes[k].alive THEN s
    ELSE LET r     == s.rushStrikes[k]
             step  == Min2(r.left, EffectStep(r.speed, dt, s.gameSpeed))
             moved == [s EXCEPT !.rushStrikes[k].left = @ - step,
                                !.rushStrikes[k].x = @ + Quot(cos(r.angle) * step, 1000),
                                !.rushStrikes[k].y = @ + Quot(sin(r.angle) * step, 1000)]
             hit   == RushFrom(moved, k, 1)
         IN  IF hit.rushStrikes[k].left <= 0
             THEN [hit EXCEPT !.rushStrikes[k].alive = FALSE]
             ELSE hit

RECURSIVE UpdateRushes(_, _, _)
UpdateRushes(s, k, dt) ==
    IF k > Len(s.rushStrikes) THEN s
    ELSE UpdateRushes(RushUpdate(s, k, dt), k + 1, dt)

\* a faulty callback that deposits two pools
SpitExplode_Twice(s, k, ix, iy) ==
    LET f == s.spits[k].onExplode
        pool == AcidPool(ix, iy, f.poolRadius, f.poolDuration, f.poolDps, f.poolSlow)
    IN  [s EXCEPT !.acidPools = Append(Append(@, pool), pool)]

\* if (this.onExplode) this.onExplode(ix, iy), with the callback of lines 792-794
SpitExplode(s, k, ix, iy) ==
    LET f == s.spits[k].onExplode
    IN  IF f = <<>> THEN s
        ELSE [s EXCEPT !.acidPools = Append(@, AcidPool(ix, iy, f.poolRadius,
                                                        f.poolDuration, f.poolDps, f.poolSlow))]

\* SpitProjectile.update (lines 1330-1346)
SpitUpdate(s, k, dt) ==
    IF ~s.spits[k].alive THEN s
    ELSE IF ~TargetAlive(s, s.spits[k].target)
    THEN [s EXCEPT !.spits[k].alive = FALSE]
    ELSE LET p       == s.spits[k]
             i       == TargetIndex(s, p.target)
             t       == s.enemies[i]
             desired == angleBetween(p.x, p.y, t.x, t.y)
             angle   == wrapAngle(lerpAngle(p.angle, desired, TurnStep(5, dt, s.gameSpeed)))
             step    == EffectStep(p.speed, dt, s.gameSpeed)
             x       == p.x + Quot(cos(angle) * step, 1000)
             y       == p.y + Quot(sin(angle) * step, 1000)
             moved   == [s EXCEPT !.spits[k].angle = angle,
                                  !.spits[k].x = x, !.spits[k].y = y]
             hit     == IF hypot(x - t.x, y - t.y) < t.radius + 6
                        THEN LET damaged == SetEnemy(moved, i, takeDamage(Ctx(moved, i), p.impact))
                             IN  [SpitExplode(damaged, k, x, y) EXCEPT !.spits[k].alive = FALSE]
                        ELSE moved
         IN  IF OutOfBounds(hit.spits[k])
             THEN [hit EXCEPT !.spits[k].alive = FALSE]
             ELSE hit

RECURSIVE UpdateSpits(_, _, _)
UpdateSpits(s, k, dt) ==
    IF k > Len(s.spits) THEN s
    ELSE UpdateSpits(SpitUpdate(s, k, dt), k + 1, dt)

\* class SpikeProjectile (lines 1389-1409)
SpikeProjectile(x, y, angle, speed, damage, pierce) ==
    [x |-> x, y |-> y, angle |-> angle, speed |-> speed, damage |-> damage,
     pierce |-> pierce, alive |-> TRUE]

\* SpikeProjectile.update, lines 1396-1403: the loop over enemies, from enemy i on
RECURSIVE SpikeFrom(_, _, _)
SpikeFrom(s, k, i) ==
    IF i > Len(s.enemies) THEN s
    ELSE LET sp == s.spikes[k]
             e  == s.enemies[i]
         IN  IF e.alive /\ hypot(e.x - sp.x, e.y - sp.y) < e.radius + 4
             THEN LET hit == [SetEnemy(s, i, takeDamage(Ctx(s, i), sp.damage))
                                 EXCEPT !.spikes[k].pierce = @ - 1]
                  IN  IF hit.spikes[k].pierce <= 0
                      THEN [hit EXCEPT !.spikes[k].alive = FALSE]
                      ELSE SpikeFrom(hit, k, i + 1)
             ELSE SpikeFrom(s, k, i + 1)

SpikeUpdate(s, k, dt) ==
    IF ~s.spikes[k].alive THEN s
    ELSE LET sp    == s.spikes[k]
             step  == EffectStep(sp.speed, dt, s.gameSpeed)
             moved == [s EXCEPT !.spikes[k].x = @ + Quot(cos(sp.angle) * step, 1000),
                                !.spikes[k].y = @ + Quot(sin(sp.angle) * step, 1000)]
             hit   == SpikeFrom(moved, k, 1)
         IN  IF OutOfBounds(hit.spikes[k])
             THEN [hit EXCEPT !.spikes[k].alive = FALSE]
             ELSE hit

RECURSIVE UpdateSpikes(_, _, _)
UpdateSpikes(s, k, dt) ==
    IF k > Len(s.spikes) THEN s
    ELSE UpdateSpikes(SpikeUpdate(s, k, dt), k + 1, dt)

\* a faulty scheduling that sets a timeout at every tick
AutoNextSchedule_NoGuard(s) ==
    IF ~s.spawning /\ Len(s.enemies) = 0 /\ s.autoNextChecked
    THEN [s EXCEPT !.autoNextTimerId = TRUE, !.autoNextTimeouts = @ + 1]
    ELSE IF s.autoNextTimerId
         THEN [s EXCEPT !.autoNextTimerId = FALSE, !.autoNextTimeouts = @ - 1]
         ELSE s

\* update, lines 1691-1701: auto next wave scheduling
AutoNextSchedule(s) ==
    IF ~s.spawning /\ Len(s.enemies) = 0 /\ s.autoNextChecked
    THEN IF ~s.autoNextTimerId
         THEN [s EXCEPT !.autoNextTimerId = TRUE, !.autoNextTimeouts = @ + 1]
         ELSE s
    ELSE IF s.autoNextTimerId
         THEN [s EXCEPT !.autoNextTimerId = FALSE, !.autoNextTimeouts = @ - 1]
         ELSE s

IsAlive(o) == o.alive

\* a faulty cleanup that leaves the spits alone
pruneDead_SkipsSpits(s) ==
    [s EXCEPT !.enemies = SelectSeq(@, IsAlive),
              !.raptorLeaps = SelectSeq(@, IsAlive),
              !.rushStrikes = SelectSeq(@, IsAlive),
              !.acidPools = SelectSeq(@, IsAlive),
              !.spikes = SelectSeq(@, IsAlive)]

\* update, lines 1703-1709: cleanup
pruneDead(s) ==
    [s EXCEPT !.enemies = SelectSeq(@, IsAlive),
              !.raptorLeaps = SelectSeq(@, IsAlive),
              !.rushStrikes = SelectSeq(@, IsAlive),
              !.spits = SelectSeq(@, IsAlive),
              !.acidPools = SelectSeq(@, IsAlive),
              !.spikes = SelectSeq(@, IsAlive)]

\* The statements of update run one after the other, each on the state the one
\* before has left: Only names that state for the next statement.
Only(set) == CHOOSE x \in set : TRUE

\* update, lines 1680-1683: enemies, then towers
afterTowers(s, dt) == Only({UpdateTowers(s1, 1, dt) : s1 \in {UpdateEnemies(s, 1, dt)}})
\* update, lines 1680-1685: then the leaps
afterLeaps(s, dt) == Only({UpdateLeaps(s2, 1, dt) : s2 \in {afterTowers(s, dt)}})
\* update, lines 1680-1686: then the rushes
afterRushes(s, dt) == Only({UpdateRushes(s3, 1, dt) : s3 \in {afterLeaps(s, dt)}})

update(s, dt) ==
    Only({pruneDead(AutoNextSchedule(s7)) :
          s7 \in {UpdateSpikes(s6, 1, dt) :
          s6 \in {UpdateAcidPools(s5, 1, dt) :
          s5 \in {UpdateSpits(s4, 1, dt) :
          s4 \in {afterRushes(s, dt)}}}}})

\* loop(ts) with dt = (ts - last) / 1000; loopRunning is never set to false
loop(s, dt) ==
    Only({IF u.lives > 0 THEN [u EXCEPT !.rafPending = @ + 1] ELSE u :
          u \in {update(s, dt)}})

\* the setTimeout callback of the auto next wave scheduling (lines 1694-1697)
AutoNextTimeout(s) ==
    startNextWave([s EXCEPT !.autoNextTimerId = FALSE, !.autoNextTimeouts = @ - 1])

(***************************************************************************)
(* effects.js: the VFX object.  Its state is the record                    *)
(* [config, flags, particles, damageNumbers]; main.js does not call it.    *)
(* A pooled entry is [t, life], its age and its life span; positions,      *)
(* velocities and colours do not bear on the pools' sizes.                 *)
(***************************************************************************)
\* VFX.config and VFX.flags as effects.js sets them (lines 26-51), empty pools (62-63)
VfxInitial ==
    [config |-> [maxParticles |-> 320, maxDamageNumbers |-> 48, dmgLife |-> 16],
     flags |-> [particles |-> TRUE, showDamageNumbers |-> FALSE],
     particles |-> <<>>, damageNumbers |-> <<>>]

\* Array.prototype.shift: drops the first element, if there is one
Shift(q) == IF q = <<>> THEN q ELSE Tail(q)

\* a faulty spawnParticle that does not drop the oldest entry at the cap
spawnParticle_NoDrop(v, life) ==
    IF ~v.flags.particles THEN v
    ELSE [v EXCEPT !.particles = Append(@, [t |-> 0, life |-> Max2(1, Min2(40, life))])]

\* VFX.spawnParticle (lines 77-106); life is opts.life or the random life, clamped
\* to [0.05 s, 2 s]
spawnParticle(v, life) ==
    IF ~v.flags.particles THEN v
    ELSE LET kept == IF Len(v.particles) >= v.config.maxParticles
                     THEN Shift(v.particles) ELSE v.particles
         IN  [v EXCEPT !.particles = Append(kept, [t |-> 0, life |-> Max2(1, Min2(40, life))])]

\* VFX.spawnBurst (lines 108-113) with opts.life given
RECURSIVE spawnBurst(_, _, _)
spawnBurst(v, count, life) ==
    IF ~v.flags.particles \/ count <= 0 THEN v
    ELSE spawnBurst(spawnParticle(v, life), count - 1, life)

\* VFX.spawnDamageNumber (lines 156-174) without opts.life
spawnDamageNumber(v) ==
    IF ~v.flags.showDamageNumbers THEN v
    ELSE LET kept == IF Len(v.damageNumbers) >= v.config.maxDamageNumbers
                     THEN Shift(v.damageNumbers) ELSE v.damageNumbers
         IN  [v EXCEPT !.damageNumbers = Append(kept, [t |-> 0, life |-> v.config.dmgLife])]

\* one pool in VFX.update: every entry ages by dt and is spliced out once t >= life
AgePool(q, dt) ==
    SelectSeq([k \in 1..Len(q) |-> [q[k] EXCEPT !.t = @ + dt]], LAMBDA p : p.t < p.life)

\* VFX.update (lines 185-224), particles and damage numbers
VfxUpdate(v, dt) ==
    [v EXCEPT !.particles = AgePool(@, dt), !.damageNumbers = AgePool(@, dt)]

\* VFX.setFlags (lines 54-59)
setFlags(v, particles, showDamageNumbers) ==
    [v EXCEPT !.flags.particles = particles, !.flags.showDamageNumbers = showDamageNumbers]

(***************************************************************************)
(* Specifications.  Start(s) is an initial condition, Commit(s) a step.    *)
(***************************************************************************)
Start(first) ==
    \E s \in {first} :
        /\ money = s.money
        /\ lives = s.lives
        /\ wave = s.wave
        /\ gameSpeed = s.gameSpeed
        /\ autoNextTimerId = s.autoNextTimerId
        /\ autoNextTimeouts = s.autoNextTimeouts
        /\ isPaused = s.isPaused
        /\ previousGameSpeed = s.previousGameSpeed
        /\ previewPos = s.previewPos
        /\ selectedType = s.selectedType
        /\ currentMapId = s.currentMapId
        /\ gameSettings = s.gameSettings
        /\ autoNextChecked = s.autoNextChecked
        /\ ENEMY_ID_SEQ = s.ENEMY_ID_SEQ
        /\ enemies = s.enemies
        /\ towers = s.towers
        /\ acidPools = s.acidPools
        /\ spawning = s.spawning
        /\ spawnTimerId = s.spawnTimerId
        /\ spawnJob = s.spawnJob
        /\ rafPending = s.rafPending
        /\ rafRunning = s.rafRunning
        /\ menuOpen = s.menuOpen
        /\ raptorLeaps = s.raptorLeaps
        /\ rushStrikes = s.rushStrikes
        /\ spits = s.spits
        /\ spikes = s.spikes
        /\ vfx = VfxInitial

NoHist == [bleed0 |-> <<0, 0>>, slow0 |-> <<100, 0>>, bleedCalls |-> {}, slowCalls |-> {}]

\* an enemy that has walked to waypoint k of its path
EnemyAt(e, k) ==
    [e EXCEPT !.waypoint = k, !.x = PathOf(e)[k + 1][1], !.y = PathOf(e)[k + 1][2]]

(***************************************************************************)
(* SpecEnemy: the Enemy class.  Two enemies of wave 1 are close to the end *)
(* of the jungle path; update and the damage sources act on them in any    *)
(* order.  Dead enemies stay in the list (no pruning between the calls of  *)
(* one tick).                                                              *)
(***************************************************************************)
EnemyDifficulties == {"normal", "hard"}
EnemyDts == {0, DtFrame, DtLong}

InitEnemy ==
    \E d \in EnemyDifficulties :
        /\ gameSettings = [DefaultSettings EXCEPT !.difficulty = d]
        /\ currentMapId = "jungle"
        /\ LET s0 == [InitialState EXCEPT !.gameSettings = gameSettings]
               s1 == SpawnTick(StartBtn(s0), 999, 999, 0)
               s2 == SpawnTick(s1, 999, 999, 0)
               last == Len(MAPS.jungle.path) - 1
           IN  Start([s2 EXCEPT !.enemies = <<EnemyAt(s2.enemies[1], last - 1),
                                              EnemyAt(s2.enemies[2], last - 2)>>])
        /\ hist = NoHist

\* e.update(dt) for enemy i
EnemyTick(i, dt) ==
    /\ Commit(SetEnemy(S, i, EnemyUpdate(Ctx(S, i), dt, gameSpeed)))
    /\ UNCHANGED hist

\* the damage sources reach enemy i; their callers skip enemies that are not alive
EnemyProtoceratops(i) ==
    /\ enemies[i].alive
    /\ Commit(SetEnemy(S, i, ProtoceratopsHit(Ctx(S, i))))
    /\ UNCHANGED hist

EnemyHomingLeap(i) ==
    /\ enemies[i].alive
    /\ Commit(SetEnemy(S, i, HomingLeapHit(Ctx(S, i))))
    /\ UNCHANGED hist

EnemyBrachiosaurus(i) ==
    /\ Commit(SetEnemy(S, i, BrachiosaurusHit(Ctx(S, i), DtFrame)))
    /\ UNCHANGED hist

\* a Dilophosaurus pool: 8 dps, slow 0.7
EnemyAcidPool(i) ==
    /\ Commit(SetEnemy(S, i, AcidPoolHit(Ctx(S, i), [dps |-> 80, slow |-> 70], DtFrame)))
    /\ UNCHANGED hist

\* the towers and the pool are placed so that they reach the front enemy only
InRange == {1}

NextEnemy ==
    \/ \E i \in 1..Len(enemies), dt \in EnemyDts : EnemyTick(i, dt)
    \/ \E i \in InRange : EnemyProtoceratops(i)
    \/ \E i \in InRange : EnemyHomingLeap(i)
    \/ \E i \in InRange : EnemyBrachiosaurus(i)
    \/ \E i \in InRange : EnemyAcidPool(i)

SpecEnemy == InitEnemy /\ [][NextEnemy]_vars

(***************************************************************************)
(* Claims about the Enemy class, under SpecEnemy.                          *)
(***************************************************************************)
LastPoint(e) == Len(PathOf(e)) - 1

\* the step changed nothing of an enemy that was alive before it
NoLivingEnemyTouched ==
    \A i \in 1..Len(enemies) : enemies[i].alive => enemies'[i] = enemies[i]

\* C1: a living enemy that reaches the last point of its path costs exactly one
\* life and is not alive afterwards; once it is not alive no update changes
\* lives, money, or its position and waypoint.
C1_EscapeCostsOneLife ==
    [][/\ \A i \in 1..Len(enemies) :
            LET e == enemies[i]
                e2 == enemies'[i]
            IN  /\ (e.alive /\ e.waypoint < LastPoint(e) /\ e2.waypoint >= LastPoint(e))
                     => (~e2.alive /\ lives' = lives - 1 /\ money' = money)
                /\ ~e.alive
                     => (e2.x = e.x /\ e2.y = e.y /\ e2.waypoint = e.waypoint /\ ~e2.alive)
       /\ NoLivingEnemyTouched => (lives' = lives /\ money' = money)
      ]_vars

\* an enemy has escaped, a life is gone, and the other enemy is still walking
C1_Witness ==
    /\ lives = DefaultSettings.startingLives - 1
    /\ \E i \in 1..Len(enemies) :
          ~enemies[i].alive /\ enemies[i].waypoint = LastPoint(enemies[i]) /\ enemies[i].hp > 0
    /\ \E j \in 1..Len(enemies) : enemies[j].alive /\ enemies[j].waypoint = LastPoint(enemies[j]) - 1

\* Math.round(10 * moneyMult) written as the integer n with n - 1/2 <= 10 * m < n + 1/2
C2_Reward ==
    CHOOSE n \in 0..20 :
        /\ 100 * n - 50 <= 10 * getDifficultyModifiers.moneyMult
        /\ 10 * getDifficultyModifiers.moneyMult < 100 * n + 50

\* C2: a living enemy whose hit points reach zero or less, by whichever damage
\* source, becomes not alive and pays round(10 * moneyMult) exactly once; no
\* enemy both pays money and costs a life, and alive never becomes true again.
C2_KillPaysOnce ==
    [][/\ \A i \in 1..Len(enemies) :
            LET e == enemies[i]
                e2 == enemies'[i]
            IN  /\ e.alive => e.hp > 0
                /\ (e.alive /\ e2.hp <= 0)
                     => (~e2.alive /\ money' = money + C2_Reward /\ lives' = lives)
                /\ (e.alive /\ ~e2.alive)
                     => \/ money' = money + C2_Reward /\ lives' = lives
                        \/ money' = money /\ lives' = lives - 1
                /\ ~e.alive => ~e2.alive
       /\ money' # money
            => \E i \in 1..Len(enemies) :
                  enemies[i].alive /\ ~enemies'[i].alive /\ enemies'[i].hp <= 0
      ]_vars

\* the front enemy was killed on hard difficulty and paid 8; the other escaped
C2_Witness ==
    /\ gameSettings.difficulty = "hard"
    /\ ~enemies[1].alive /\ enemies[1].hp <= 0
    /\ ~enemies[2].alive /\ enemies[2].hp > 0
    /\ money = DefaultSettings.startingMoney + 8
    /\ lives = DefaultSettings.startingLives - 1

(***************************************************************************)
(* Spec: the game from page load.  The browser calls the pending loop      *)
(* callbacks of a frame one after the other with the same timestamp, so    *)
(* the first sees the time since the last frame and the others dt = 0.     *)
(* Events and timers are handled between frames.                           *)
(***************************************************************************)
LoopDts == {DtLong}
\* Math.random() draws used by the spawner, per mille: an ordinary enemy on the first path
Rolls == {999}
PathRolls == {0}

Init == Start(InitialState) /\ hist = NoHist

\* the first loop callback of a frame
FrameFirst(dt) ==
    /\ rafRunning = 0
    /\ rafPending > 0
    /\ Commit(loop([S EXCEPT !.rafRunning = rafPending - 1, !.rafPending = 0], dt))
    /\ UNCHANGED hist

\* a further loop callback of the same frame
FrameNext ==
    /\ rafRunning > 0
    /\ Commit(loop([S EXCEPT !.rafRunning = @ - 1], 0))
    /\ UNCHANGED hist

OnStartBtn ==
    /\ rafRunning = 0
    /\ wave < MaxWave
    /\ Commit(StartBtn(S))
    /\ UNCHANGED hist

OnSpawnInterval ==
    /\ rafRunning = 0
    /\ spawnTimerId
    /\ Len(enemies) < MaxEnemies
    /\ ENEMY_ID_SEQ <= MaxIds
    /\ \E rElite \in Rolls, rSteam \in Rolls, rPath \in PathRolls :
          Commit(SpawnTick(S, rElite, rSteam, rPath))
    /\ UNCHANGED hist

OnRestartBtn ==
    /\ rafRunning = 0
    /\ rafPending < MaxLoops
    /\ Commit(restartGame(S))
    /\ UNCHANGED hist

OnMenuPlay ==
    /\ rafRunning = 0
    /\ menuOpen
    /\ rafPending < MaxLoops
    /\ Commit(MenuPlay(S))
    /\ UNCHANGED hist

Next ==
    \/ \E dt \in LoopDts : FrameFirst(dt)
    \/ FrameNext
    \/ OnStartBtn
    \/ OnSpawnInterval
    \/ OnRestartBtn
    \/ OnMenuPlay

Spec == Init /\ [][Next]_vars

(***************************************************************************)
(* Claims about the game loop, under Spec.                                 *)
(***************************************************************************)
\* a step in which a loop callback runs, and with it update(dt)
LoopStep == (\E dt \in LoopDts : FrameFirst(dt)) \/ FrameNext

\* C3: once lives <= 0 no loop callback runs update again until restartGame
\* has put lives back.
C3_FrozenAfterGameOver == [][lives <= 0 => ~LoopStep]_vars

(***************************************************************************)
(* SpecPlace: building.  The canvas receives mouse events while the menu   *)
(* is hidden; the map list and the menu buttons are used while it is       *)
(* shown.  No frame runs here: placement reads and writes nothing that the *)
(* tick touches except money.                                              *)
(***************************************************************************)
\* 53 px from the jungle path and on a coast path; exactly 24 px and 23 px below the
\* first segment of the jungle path
ClickPoints == {<<100, 150>>, <<85, 324>>, <<85, 323>>}
PlaceTypes == {"Protoceratops", "Stonklodon"}

InitPlace == Start(InitialState) /\ hist = NoHist

PlaceMouseMove ==
    /\ ~menuOpen
    /\ \E p \in ClickPoints : Commit(MouseMove(S, p))
    /\ UNCHANGED hist

PlaceCanvasClick ==
    /\ ~menuOpen
    /\ Len(towers) < MaxTowers
    /\ Commit(CanvasClick(S))
    /\ UNCHANGED hist

PlaceSelectTower ==
    /\ \E t \in PlaceTypes : Commit(SelectTower(S, t))
    /\ UNCHANGED hist

PlaceMapListClick ==
    /\ menuOpen
    /\ \E id \in MapIds : Commit(MapListClick(S, id))
    /\ UNCHANGED hist

PlacePause ==
    /\ ~menuOpen
    /\ Commit(showMainMenuAsPause(S))
    /\ UNCHANGED hist

PlaceMenuClose ==
    /\ menuOpen
    /\ Commit(MenuClose(S))
    /\ UNCHANGED hist

PlaceMenuPlay ==
    /\ menuOpen
    /\ IF isPaused THEN TRUE ELSE rafPending < MaxLoops
    /\ Commit(MenuPlay(S))
    /\ UNCHANGED hist

PlaceRestart ==
    /\ rafPending < MaxLoops
    /\ Commit(restartGame(S))
    /\ UNCHANGED hist

NextPlace ==
    \/ PlaceMouseMove
    \/ PlaceCanvasClick
    \/ PlaceSelectTower
    \/ PlaceMapListClick
    \/ PlacePause
    \/ PlaceMenuClose
    \/ PlaceMenuPlay
    \/ PlaceRestart

SpecPlace == InitPlace /\ [][NextPlace]_vars

(***************************************************************************)
(* Claims about placement, under SpecPlace.                                *)
(***************************************************************************)
Clamp(v, lo, hi) == Max2(lo, Min2(hi, v))

\* squared distance from (x, y) to the axis-parallel segment a-b: the nearest point
\* of the segment has each coordinate clamped to the segment's extent
DistSqToSegment(x, y, a, b) ==
    LET nx == Clamp(x, Min2(a[1], b[1]), Max2(a[1], b[1]))
        ny == Clamp(y, Min2(a[2], b[2]), Max2(a[2], b[2]))
    IN  (x - nx) * (x - nx) + (y - ny) * (y - ny)

\* (x, y) is nearer than the buffer to some segment of some path of the set ps
WithinBuffer(ps, x, y) ==
    \E k \in 1..Len(ps) : \E i \in 1..(Len(ps[k]) - 1) :
        DistSqToSegment(x, y, ps[k][i], ps[k][i + 1]) < buffer * buffer

\* C4: a click on a position within the buffer of the active paths, or with money
\* below the cost of the selected tower, leaves towers and money unchanged; any
\* other click adds exactly one tower of the selected type there and takes its cost.
C4_PlacementAcceptedOrRejected ==
    [][(PlaceCanvasClick /\ previewPos # <<>>) =>
          LET cost == TOWER_TYPES[selectedType].cost
          IN  IF WithinBuffer(paths, previewPos[1], previewPos[2]) \/ money < cost
              THEN towers' = towers /\ money' = money
              ELSE /\ towers' = Append(towers, [type |-> selectedType, x |-> previewPos[1],
                                                y |-> previewPos[2], cooldown |-> 0])
                   /\ money' = money - cost
      ]_vars

\* a Protoceratops stands exactly 24 px from the jungle path, and what is left
\* does not pay for another tower
C4_Witness ==
    /\ currentMapId = "jungle"
    /\ towers = << [type |-> "Protoceratops", x |-> 85, y |-> 324, cooldown |-> 0] >>
    /\ money = DefaultSettings.startingMoney - TOWER_TYPES.Protoceratops.cost
    /\ previewPos = <<85, 323>>

\* C5: in every reachable state every tower is at least the buffer away from every
\* segment of every path of the active path set.
C5_TowersClearOfActivePaths ==
    \A k \in 1..Len(towers) : ~WithinBuffer(paths, towers[k].x, towers[k].y)

(***************************************************************************)
(* SpecWave: the wave spawner.  Waves are started by the start button and  *)
(* the spawn interval fires until the wave is out; no frame runs, so every *)
(* enemy spawned since the last restart is still in the list.  The player  *)
(* may pick the map while the menu is shown, buy economy towers and        *)
(* restart.                                                                *)
(***************************************************************************)
\* clear of the paths of all three maps
WavePoints == {<<650, 50>>}
WaveTypes == {"Stonklodon"}

InitWave == Start(InitialState) /\ hist = NoHist

WaveStartBtn ==
    /\ wave < MaxWaveW
    /\ Commit(StartBtn(S))
    /\ UNCHANGED hist

WaveSpawnInterval ==
    /\ spawnTimerId
    /\ \E rElite \in Rolls, rSteam \in Rolls, rPath \in PathRolls :
          Commit(SpawnTick(S, rElite, rSteam, rPath))
    /\ UNCHANGED hist

WaveMapListClick ==
    /\ menuOpen
    /\ \E id \in MapIds : Commit(MapListClick(S, id))
    /\ UNCHANGED hist

WaveMouseMove ==
    /\ ~menuOpen
    /\ \E p \in WavePoints : Commit(MouseMove(S, p))
    /\ UNCHANGED hist

WaveSelectTower ==
    /\ \E t \in WaveTypes : Commit(SelectTower(S, t))
    /\ UNCHANGED hist

WaveCanvasClick ==
    /\ ~menuOpen
    /\ selectedType \in WaveTypes
    /\ Len(towers) < MaxTowers
    /\ Commit(CanvasClick(S))
    /\ UNCHANGED hist

WaveRestart ==
    /\ rafPending < MaxLoops
    /\ wave <= MaxRestartWave
    /\ Commit(restartGame(S))
    /\ UNCHANGED hist

NextWave ==
    \/ WaveStartBtn
    \/ WaveSpawnInterval
    \/ WaveMapListClick
    \/ WaveMouseMove
    \/ WaveSelectTower
    \/ WaveCanvasClick
    \/ WaveRestart

SpecWave == InitWave /\ [][NextWave]_vars

(***************************************************************************)
(* Claims about waves, under SpecWave.                                     *)
(***************************************************************************)
\* floor(1.2 * w): the integer k with k <= 1.2 * w < k + 1
C6_Floor12(w) == CHOOSE k \in 0..(2 * w) : 10 * k <= 12 * w /\ 12 * w < 10 * (k + 1)

\* max(1, round((6 + floor(1.2 * w)) * m)) for m in per cent: round(x) is the
\* integer n with n - 1/2 <= x < n + 1/2
C6_Expected(w, m) ==
    LET x100 == (6 + C6_Floor12(w)) * m
        n == CHOOSE n \in 0..(x100 \div 100 + 1) :
                 100 * n - 50 <= x100 /\ x100 < 100 * n + 50
    IN  IF n >= 1 THEN n ELSE 1

\* C6: the number of regular enemies scheduled for wave w on a map with count
\* multiplier m is max(1, round((6 + floor(1.2 w)) m)); wave 5 with m = 1.0 has 12.
C6_ScheduledCount ==
    /\ spawning => spawnJob.count = C6_Expected(wave, mapModifiers.countMult)
    \* the function alone, for more waves than are played here; it reads no
    \* state, so it is evaluated in the states before the first wave only
    /\ wave = 0 =>
          /\ \A w \in 1..MaxCountWave : \A id \in MapIds :
                WaveCount(w, MAPS[id].modifiers.countMult)
                    = C6_Expected(w, MAPS[id].modifiers.countMult)
          /\ WaveCount(5, 100) = 12

\* wave 5 on the jungle map (m = 1.0) is being spawned with 12 scheduled
C6_Witness ==
    wave = 5 /\ spawning /\ currentMapId = "jungle" /\ spawnJob.count = 12

IsMiniboss(e) == e.radius = 14

\* enemies of wave v on the active map: the scheduled ones and the miniboss
C7_WaveSize(v) ==
    C6_Expected(v, mapModifiers.countMult) + (IF v % 7 = 0 THEN 1 ELSE 0)

RECURSIVE C7_Before(_)
\* enemies of the waves before wave w
C7_Before(w) == IF w <= 1 THEN 0 ELSE C7_Before(w - 1) + C7_WaveSize(w - 1)

\* C7: a wave spawns exactly its scheduled count of regular enemies, then exactly
\* one miniboss if and only if its number is a positive multiple of 7, and only
\* then is spawning false.  (Every enemy spawned since the restart is in the list.)
C7_WaveSpawnsScheduledThenBoss ==
    /\ wave = 0 => (enemies = <<>> /\ ~spawning)
    /\ wave > 0 =>
         LET first == C7_Before(wave) + 1
             scheduled == C6_Expected(wave, mapModifiers.countMult)
             n == Len(enemies) - C7_Before(wave)
         IN  /\ spawning =>
                  /\ n >= 0 /\ n <= scheduled
                  /\ \A k \in first..Len(enemies) : ~IsMiniboss(enemies[k])
             /\ ~spawning =>
                  /\ n = C7_WaveSize(wave)
                  /\ \A k \in first..(first + scheduled - 1) : ~IsMiniboss(enemies[k])
                  /\ wave % 7 = 0 => IsMiniboss(enemies[Len(enemies)])

\* wave 7 is out on the jungle map: 14 regular enemies and then the miniboss
C7_Witness ==
    /\ wave = 7 /\ ~spawning /\ currentMapId = "jungle"
    /\ Len(enemies) = C7_Before(7) + 15
    /\ IsMiniboss(enemies[Len(enemies)])
    /\ \A k \in 1..(Len(enemies) - 1) : ~IsMiniboss(enemies[k])

\* C8: a start that is accepted (no wave is spawning) adds 1 to wave and, with no
\* enemy spawned in the same step, adds to money 3 per economy tower placed, plus
\* the wave bonus if and only if wave was > 0 before; a start while spawning
\* changes neither.
C8_StartWavePayout ==
    [][WaveStartBtn =>
          IF spawning THEN wave' = wave /\ money' = money
          ELSE /\ wave' = wave + 1
               /\ money' = money
                    + 3 * Cardinality({k \in 1..Len(towers) : towers[k].type = "Stonklodon"})
                    + (IF wave > 0 THEN gameSettings.waveReward ELSE 0)
               /\ enemies' = enemies
               /\ spawning'
      ]_vars

\* one economy tower bought before wave 1 (100 - 90), paid 3 at the start of wave 1
\* and 3 + 20 at the start of wave 2, of which no enemy is spawned yet
C8_Witness ==
    /\ wave = 2 /\ spawning /\ spawnJob.spawned = 0
    /\ Len(towers) = 1 /\ towers[1].type = "Stonklodon"
    /\ money = 36

(***************************************************************************)
(* SpecStatus: status effects.  applyBleed and applySlow are called on one *)
(* enemy with various arguments, between updates of that enemy.  hist      *)
(* records the enemy's status as the last update left it and the           *)
(* arguments of the calls made since.                                      *)
(***************************************************************************)
\* <<dps, duration>>: 4 hp/s for 2 s, 6 hp/s for 1 s
BleedArgs == {<<40, 40>>, <<60, 20>>}
\* <<factor, duration>>: 0.6 for 1 s, 0.8 for 3 s
SlowArgs == {<<60, 20>>, <<80, 60>>}

StatusOf(e) == [bleed0 |-> <<e.bleedDps, e.bleedTimer>>,
                slow0 |-> <<e.slowFactor, e.slowTimer>>,
                bleedCalls |-> {}, slowCalls |-> {}]

InitStatus ==
    /\ gameSettings = DefaultSettings
    /\ currentMapId = "jungle"
    /\ LET s1 == SpawnTick(StartBtn(InitialState), 999, 999, 0)
       IN  Start([s1 EXCEPT !.enemies =
                     <<EnemyAt(s1.enemies[1], Len(MAPS.jungle.path) - 3)>>])
    /\ hist = StatusOf(enemies[1])

StatusApplyBleed ==
    \E a \in BleedArgs :
        /\ Commit([S EXCEPT !.enemies[1] = applyBleed(@, a[1], a[2])])
        /\ hist' = [hist EXCEPT !.bleedCalls = @ \cup {a}]

StatusApplySlow ==
    \E a \in SlowArgs :
        /\ Commit([S EXCEPT !.enemies[1] = applySlow(@, a[1], a[2])])
        /\ hist' = [hist EXCEPT !.slowCalls = @ \cup {a}]

StatusTick ==
    /\ Commit(SetEnemy(S, 1, EnemyUpdate(Ctx(S, 1), DtFrame, gameSpeed)))
    /\ hist' = StatusOf(enemies'[1])

NextStatus ==
    \/ StatusApplyBleed
    \/ StatusApplySlow
    \/ StatusTick

SpecStatus == InitStatus /\ [][NextStatus]_vars

(***************************************************************************)
(* Claims about status effects, under SpecStatus.                          *)
(***************************************************************************)
MaxOf(set) == CHOOSE m \in set : \A v \in set : v <= m
MinOf(set) == CHOOSE m \in set : \A v \in set : m <= v

\* C9: after any applyBleed calls with no update in between, bleedDps is the
\* largest of the previous bleedDps and the dps of the calls, and bleedTimer the
\* largest of the previous bleedTimer and their durations, whatever their order.
C9_BleedStrongestLongest ==
    /\ enemies[1].bleedDps = MaxOf({hist.bleed0[1]} \cup {a[1] : a \in hist.bleedCalls})
    /\ enemies[1].bleedTimer = MaxOf({hist.bleed0[2]} \cup {a[2] : a \in hist.bleedCalls})

\* applyBleed(4, 2) and applyBleed(6, 1) on an enemy that was not bleeding
C9_Witness ==
    /\ hist.bleed0 = <<0, 0>>
    /\ hist.bleedCalls = {<<40, 40>>, <<60, 20>>}
    /\ enemies[1].bleedDps = 60
    /\ enemies[1].bleedTimer = 40

\* C10: after any applySlow calls with no update in between, slowFactor is the
\* smallest of the previous slowFactor and the factors of the calls, and slowTimer
\* the largest of the previous slowTimer and their durations, whatever their order.
C10_SlowStrongestLongest ==
    /\ enemies[1].slowFactor = MinOf({hist.slow0[1]} \cup {a[1] : a \in hist.slowCalls})
    /\ enemies[1].slowTimer = MaxOf({hist.slow0[2]} \cup {a[2] : a \in hist.slowCalls})

\* applySlow(0.6, 1) and applySlow(0.8, 3) on an enemy that was not slowed
C10_Witness ==
    /\ hist.slow0 = <<100, 0>>
    /\ hist.slowCalls = {<<60, 20>>, <<80, 60>>}
    /\ enemies[1].slowFactor = 60
    /\ enemies[1].slowTimer = 60

(***************************************************************************)
(* Claims about stun, under SpecEnemy.                                     *)
(***************************************************************************)
\* what an update of length dt does to a stunned enemy e (e2 after it), whether
\* or not it survives: it stays where it is and the bleed is applied
C11_StaysAndBleeds(e, e2, dt) ==
    /\ e2.x = e.x /\ e2.y = e.y /\ e2.waypoint = e.waypoint
    /\ e.bleedTimer > 0 =>
          (e2.bleedTimer = e.bleedTimer - dt /\ e2.hp = e.hp - e.bleedDps * dt)
    /\ e.bleedTimer <= 0 => (e2.bleedTimer = e.bleedTimer /\ e2.hp = e.hp)

\* the stun timer is decremented and a positive slow timer decays
C11_TimersDecay(e, e2, dt) ==
    /\ e2.stunTimer = e.stunTimer - dt
    /\ e.slowTimer > 0 => e2.slowTimer = e.slowTimer - dt

\* C11 as stated: the update of a living enemy with stunTimer > 0 leaves position
\* and waypoint unchanged, decrements stunTimer, decreases positive bleed and
\* slow timers and applies the bleed damage.
C11_StunnedUpdate ==
    [][\A i \in 1..Len(enemies) : \A dt \in EnemyDts :
          (EnemyTick(i, dt) /\ enemies[i].alive /\ enemies[i].stunTimer > 0)
             => /\ C11_StaysAndBleeds(enemies[i], enemies'[i], dt)
                /\ C11_TimersDecay(enemies[i], enemies'[i], dt)
      ]_vars

\* C11 amended: as stated when the enemy survives the update; when the bleed of
\* this update kills it, the update ends there and the stun and slow timers keep
\* their values.
C11_StunnedUpdateUnlessKilled ==
    [][\A i \in 1..Len(enemies) : \A dt \in EnemyDts :
          (EnemyTick(i, dt) /\ enemies[i].alive /\ enemies[i].stunTimer > 0)
             => /\ C11_StaysAndBleeds(enemies[i], enemies'[i], dt)
                /\ enemies'[i].alive => C11_TimersDecay(enemies[i], enemies'[i], dt)
                /\ ~enemies'[i].alive =>
                      /\ enemies'[i].hp <= 0
                      /\ enemies'[i].stunTimer = enemies[i].stunTimer
                      /\ enemies'[i].slowTimer = enemies[i].slowTimer
      ]_vars

\* the front enemy was hit by a leap and a Protoceratops and then updated for one
\* second while stunned: it has not moved, its bleed has run for a second and
\* its stun timer has gone from 0.2 s to -0.8 s
C11_Witness ==
    /\ gameSettings.difficulty = "normal"
    /\ enemies[1].alive
    /\ enemies[1].x = 680 /\ enemies[1].y = 300 /\ enemies[1].waypoint = 14
    /\ enemies[1].stunTimer = 4 - DtFrame
    /\ enemies[1].bleedTimer = 60 - DtFrame
    /\ enemies[1].hp = 6000 - 1600 - 1400 - 60 * DtFrame

(***************************************************************************)
(* SpecKnock: knockback.  One enemy of wave 1 walks the jungle path from   *)
(* its first point; between its updates knockback is called on it with the *)
(* distances the towers use.  hist records the last call: the method, the  *)
(* enemy as it was before the call, the distance, and the number of        *)
(* knockback calls since the last update.                                  *)
(***************************************************************************)
\* knockback calls between two updates of the enemy
MaxPushes == 1
\* knockback: 42 (Ankylosaurus), 60 (Triceratops, Dreadnoughtus), and a short push
KnockDistances == {10, 42, 60}

InitKnock ==
    /\ gameSettings = DefaultSettings
    /\ currentMapId = "jungle"
    /\ Start(SpawnTick(StartBtn(InitialState), 999, 999, 0))
    /\ hist = [op |-> "none", before |-> enemies[1], distance |-> 0, pushes |-> 0]

\* e.update(dt)
KnockTick ==
    /\ Commit(SetEnemy(S, 1, EnemyUpdate(Ctx(S, 1), DtFrame, gameSpeed)))
    /\ hist' = [op |-> "update", before |-> enemies[1], distance |-> 0, pushes |-> 0]

\* e.knockback(d); the callers skip enemies that are not alive
KnockKnockback ==
    \E d \in KnockDistances :
        /\ enemies[1].alive
        /\ hist.pushes < MaxPushes
        /\ Commit([S EXCEPT !.enemies[1] = knockback(@, d)])
        /\ hist' = [op |-> "knockback", before |-> enemies[1], distance |-> d,
                    pushes |-> hist.pushes + 1]

NextKnock ==
    \/ KnockTick
    \/ KnockKnockback

SpecKnock == InitKnock /\ [][NextKnock]_vars

(***************************************************************************)
(* Claims about knockback, under SpecKnock.                                *)
(***************************************************************************)
\* distance of enemy e from point k (counted from 0) of its path
DistFromPoint(e, k) == hypot(e.x - PathOf(e)[k + 1][1], e.y - PathOf(e)[k + 1][2])

\* e is on the segment from point k to point k+1 of its path, within the 5 px
\* that validatePosition tolerates (the segments are axis-parallel)
OnSegment(e, k) ==
    /\ k >= 0
    /\ k + 2 <= Len(PathOf(e))
    /\ LET a == PathOf(e)[k + 1]
           b == PathOf(e)[k + 2]
       IN  /\ e.x >= Min2(a[1], b[1]) - 5
           /\ e.x <= Max2(a[1], b[1]) + 5
           /\ e.y >= Min2(a[2], b[2]) - 5
           /\ e.y <= Max2(a[2], b[2]) + 5

\* C12: knockback(d) on an enemy at waypoint 0 moves it backward by at most 90%
\* of the distance it has covered on its first segment, and leaves it on that
\* segment, never behind the first point of the path.
C12_FirstSegmentPushCapped ==
    (hist.op = "knockback" /\ hist.before.waypoint = 0) =>
        /\ enemies[1].waypoint = 0
        /\ OnSegment(enemies[1], 0)
        /\ DistFromPoint(enemies[1], 0) <= DistFromPoint(hist.before, 0)
        /\ 10 * (DistFromPoint(hist.before, 0) - DistFromPoint(enemies[1], 0))
               <= 9 * DistFromPoint(hist.before, 0)

\* knockback(60) on the enemy 54 px along its first segment
C12_Witness ==
    /\ hist.op = "knockback"
    /\ hist.distance = 60
    /\ hist.before.waypoint = 0
    /\ DistFromPoint(hist.before, 0) = 54
    /\ enemies[1].alive
    /\ enemies[1].waypoint = 0

\* C13: knockback(d) on an enemy at waypoint k > 0 with d greater than its
\* distance from path[k] decrements the waypoint to k-1 and leaves the enemy on
\* the segment from path[k-1] to path[k]; whatever d, the enemy is afterwards on
\* its path between path[waypoint] and path[waypoint+1].
C13_PushStaysOnPath ==
    (hist.op = "knockback" /\ hist.before.waypoint > 0) =>
        /\ hist.distance > DistFromPoint(hist.before, hist.before.waypoint) =>
              /\ enemies[1].waypoint = hist.before.waypoint - 1
              /\ OnSegment(enemies[1], hist.before.waypoint - 1)
        /\ OnSegment(enemies[1], enemies[1].waypoint)

(***************************************************************************)
(* SpecSpike: a pierce bolt.  Three enemies of wave 1 walk in a row along  *)
(* the segment from (180,140) to (280,140) of the jungle path, and a bolt  *)
(* flies along that segment from behind them.  Each step is one update(dt) *)
(* of the game.  hist records the bolt's initial pierce counter and the    *)
(* ids of the enemies it has damaged, one entry per damage event.          *)
(***************************************************************************)
\* x of the three enemies, and the x the bolt starts from
SpikeRow == <<200, 230, 260>>
SpikeStarts == {150, 160, 170}
\* pierce: 1 (Iguanodon), 4 (Stegosaurus), and the 2 of the specification's example
SpikePierces == {1, 2, 4}
SpikeDts == {1}

InitSpike ==
    \E x0 \in SpikeStarts, n \in SpikePierces :
        /\ gameSettings = DefaultSettings
        /\ currentMapId = "jungle"
        /\ LET s1 == SpawnTick(StartBtn(InitialState), 999, 999, 0)
               s2 == SpawnTick(s1, 999, 999, 0)
               s3 == SpawnTick(s2, 999, 999, 0)
               row == [i \in 1..3 |-> [EnemyAt(s3.enemies[i], 4) EXCEPT !.x = SpikeRow[i]]]
           IN  Start([s3 EXCEPT !.enemies = row,
                                !.spikes = <<SpikeProjectile(x0, 140, 0, 5200, 3600, n)>>])
        /\ hist = [pierce0 |-> n, hits |-> <<>>]

\* the enemies of list before that are damaged or gone in list after, from enemy i on
RECURSIVE DamagedIds(_, _, _)
DamagedIds(before, after, i) ==
    IF i > Len(before) THEN <<>>
    ELSE LET same == SelectSeq(after, LAMBDA e : e.id = before[i].id)
             hurt == same = <<>> \/ same[1].hp < before[i].hp
         IN  (IF hurt THEN <<before[i].id>> ELSE <<>>) \o DamagedIds(before, after, i + 1)

\* one frame while the bolt flies
SpikeFrame ==
    \E dt \in SpikeDts :
        /\ Len(spikes) > 0
        /\ Commit(update(S, dt))
        /\ hist' = [hist EXCEPT !.hits = @ \o DamagedIds(enemies, enemies', 1)]

\* fastBtn 'click'
SpikeFastBtn ==
    /\ Len(spikes) > 0
    /\ Commit(FastBtn(S))
    /\ UNCHANGED hist

NextSpike ==
    \/ SpikeFrame
    \/ SpikeFastBtn

SpecSpike == InitSpike /\ [][NextSpike]_vars

(***************************************************************************)
(* Claims about the pierce bolt, under SpecSpike.                          *)
(***************************************************************************)
\* C14: a pierce bolt with pierce counter n damages each enemy it contacts once:
\* it never applies more than n damage events, it is not alive once it has
\* applied n, and the enemies it damages are distinct (the first n contacted).
C14_PierceDamagesFirstN ==
    /\ Len(hist.hits) <= hist.pierce0
    /\ Len(hist.hits) = hist.pierce0 => Len(spikes) = 0
    /\ \A i, j \in DOMAIN hist.hits : i # j => hist.hits[i] # hist.hits[j]

(***************************************************************************)
(* SpecLeap: a homing strike.  One enemy of wave 1 is at (680,300) on the  *)
(* last segment of the jungle path, stunned or walking, and a RaptorNest   *)
(* leap flies at it along that segment.  Each step is one update(dt) of    *)
(* the game, or a hit on the target by another source.  hist counts the    *)
(* damage and bleed events of the leap, tells whether the target has       *)
(* stayed alive where it was, and records the last update of the leap.     *)
(***************************************************************************)
\* x the leap starts from
LeapStarts == {500, 560, 600}
\* stunTimer of the target: none, 0.8 s (Triceratops)
LeapStuns == {0, 16}
\* a frame of 0.05 s, and one of 1 s (the page was in the background)
LeapDts == {1, DtFrame}

InitLeap ==
    \E x0 \in LeapStarts, stun \in LeapStuns :
        /\ gameSettings = DefaultSettings
        /\ currentMapId = "jungle"
        /\ LET s1 == SpawnTick(StartBtn(InitialState), 999, 999, 0)
               e  == applyStun(EnemyAt(s1.enemies[1], Len(MAPS.jungle.path) - 2), stun)
           IN  Start([s1 EXCEPT !.enemies = <<e>>,
                                !.raptorLeaps = <<HomingLeap(x0, e.y, e, 4500, 1600, 60, 60)>>])
        /\ hist = [events |-> 0, still |-> TRUE, deadAtStart |-> FALSE, lastEvents |-> 0]

\* what update(dt) in state s shows of the leap: whether its target was alive when
\* the leap was updated, and whether the leap damaged it and made it bleed
LeapObserved(s, dt) ==
    Only(UNION {{LET id == s.raptorLeaps[1].target
              i  == TargetIndex(s1, id)
          IN  [deadAtStart |-> ~TargetAlive(s1, id),
               events |-> IF i # 0 /\ s2.enemies[i].hp = s1.enemies[i].hp - 1600
                                  /\ s2.enemies[i].bleedDps = 60 /\ s2.enemies[i].bleedTimer = 60
                          THEN 1 ELSE 0] :
          s2 \in {UpdateLeaps(s1, 1, dt)}} : s1 \in {afterTowers(s, dt)}})

\* one frame while the leap flies
LeapFrame ==
    \E dt \in LeapDts :
        /\ Len(raptorLeaps) > 0
        /\ Commit(update(S, dt))
        /\ \E o \in {LeapObserved(S, dt)} :
              hist' = [events |-> hist.events + o.events,
                       still |-> /\ hist.still
                                 /\ Len(enemies') = 1
                                 /\ enemies'[1].x = enemies[1].x
                                 /\ enemies'[1].y = enemies[1].y,
                       deadAtStart |-> o.deadAtStart,
                       lastEvents |-> o.events]

\* another source damages the target (a Stegosaurus spike, damage 18)
LeapTargetDamaged ==
    /\ Len(raptorLeaps) > 0
    /\ Len(enemies) > 0
    /\ enemies[1].alive
    /\ Commit(SetEnemy(S, 1, takeDamage(Ctx(S, 1), 3600)))
    /\ hist' = [hist EXCEPT !.still = @ /\ enemies'[1].alive]

NextLeap ==
    \/ LeapFrame
    \/ LeapTargetDamaged

SpecLeap == InitLeap /\ [][NextLeap]_vars

(***************************************************************************)
(* Claims about the homing strike, under SpecLeap.                         *)
(***************************************************************************)
\* C15: a homing strike applies at most one damage and bleed event and is not
\* alive afterwards; when its target has stayed alive where it was, the strike
\* has applied exactly one event by the time it ends; a strike whose target is
\* not alive when it is updated ends without applying damage or bleed.
C15_HomingStrikeHitsOnce ==
    /\ hist.events <= 1
    /\ hist.events = 1 => Len(raptorLeaps) = 0
    /\ (Len(raptorLeaps) = 0 /\ hist.still) => hist.events = 1
    /\ hist.deadAtStart => (Len(raptorLeaps) = 0 /\ hist.lastEvents = 0)

(***************************************************************************)
(* SpecRush: a rush strike.  Three enemies of wave 1 walk in a row along   *)
(* the segment from (180,140) to (280,140) of the jungle path, and a       *)
(* Triceratops rush runs along that segment, from behind them or towards   *)
(* them.  Each step is one update(dt) of the game.  hist records the ids   *)
(* of the enemies the rush has hit, one entry per hit, the distance it has *)
(* travelled, and whether every update so far hit exactly the enemies it   *)
(* had to and did to each what a hit does.                                 *)
(***************************************************************************)
\* <<x, angle>> the rush starts with
RushStarts == {<<150, 0>>, <<170, 0>>, <<300, 180>>}
RushDts == {1, 2}

\* where a Triceratops stands on the coast map, 25 px below the segment from
\* (160,80) to (320,80) of its first path
RushEdge == <<200, 105>>

InitRush ==
    \/ \E r \in RushStarts :
          /\ gameSettings = DefaultSettings
          /\ currentMapId = "jungle"
          /\ LET s1 == SpawnTick(StartBtn(InitialState), 999, 999, 0)
                 s2 == SpawnTick(s1, 999, 999, 0)
                 s3 == SpawnTick(s2, 999, 999, 0)
                 row == [i \in 1..3 |-> [EnemyAt(s3.enemies[i], 4) EXCEPT !.x = SpikeRow[i]]]
             IN  Start([s3 EXCEPT !.enemies = row,
                          !.rushStrikes = <<RushStrike(r[1], 140, r[2], 6000, 160, 16, 60, 2400)>>])
          /\ hist = [hits |-> <<>>, travelled |-> 0, ok |-> TRUE]
    \* on the coast map the tower has fired at an enemy that walks straight above it
    \/ /\ gameSettings = DefaultSettings
       /\ currentMapId = "coast"
       /\ ~OnPathOf(MapPaths("coast"), RushEdge[1], RushEdge[2])
       /\ \E s1 \in {SpawnTick(StartBtn(MapListClick(InitialState, "coast")), 999, 999, 0)} :
          \E e \in {[EnemyAt(s1.enemies[1], 2) EXCEPT !.x = RushEdge[1]]} :
             /\ hypot(e.x - RushEdge[1], e.y - RushEdge[2]) <= TOWER_TYPES.Triceratops.range
             /\ Start([s1 EXCEPT !.enemies = <<e>>,
                          !.rushStrikes = <<RushStrike(RushEdge[1], RushEdge[2],
                                                      angleBetween(RushEdge[1], RushEdge[2], e.x, e.y),
                                                      6000, 160, 16, 60, 2400)>>])
       /\ hist = [hits |-> <<>>, travelled |-> 0, ok |-> TRUE]

\* what update(dt) in state s shows of the rush: s1 is the state when the rush is
\* updated, s2 the state after; due are the enemies the rush has to hit
RushObserved(s, dt) ==
    Only(UNION {{LET r1  == s1.rushStrikes[1]
              r2  == s2.rushStrikes[1]
              due == {i \in 1..Len(s1.enemies) :
                         /\ s1.enemies[i].alive
                         /\ s1.enemies[i].id \notin r1.hitSet
                         /\ hypot(s1.enemies[i].x - r2.x, s1.enemies[i].y - r2.y) < 18}
              pushed(i) == knockback(s1.enemies[i], 60)
          IN  [hits |-> SelectSeq([i \in 1..Len(s1.enemies) |-> s1.enemies[i].id],
                                  LAMBDA id : s2.enemies[TargetIndex(s2, id)] #
                                              s1.enemies[TargetIndex(s1, id)]),
               step |-> Abs(r2.x - r1.x) + Abs(r2.y - r1.y),
               ok |-> \A i \in 1..Len(s1.enemies) :
                        IF i \in due
                        THEN /\ s2.enemies[i].hp = s1.enemies[i].hp - 2400
                             /\ s2.enemies[i].stunTimer = Max2(s1.enemies[i].stunTimer, 16)
                             /\ s2.enemies[i].x = pushed(i).x
                             /\ s2.enemies[i].y = pushed(i).y
                             /\ s2.enemies[i].waypoint = pushed(i).waypoint
                        ELSE s2.enemies[i] = s1.enemies[i]] :
          s2 \in {UpdateRushes(s1, 1, dt)}} : s1 \in {afterLeaps(s, dt)}})

\* one frame while the rush runs
RushFrame ==
    \E dt \in RushDts :
        /\ Len(rushStrikes) > 0
        /\ Commit(update(S, dt))
        /\ \E o \in {RushObserved(S, dt)} :
              hist' = [hits |-> hist.hits \o o.hits,
                       travelled |-> hist.travelled + o.step,
                       ok |-> hist.ok /\ o.ok]

\* fastBtn 'click'
RushFastBtn ==
    /\ Len(rushStrikes) > 0
    /\ Commit(FastBtn(S))
    /\ UNCHANGED hist

NextRush ==
    \/ RushFrame
    \/ RushFastBtn

SpecRush == InitRush /\ [][NextRush]_vars

(***************************************************************************)
(* Claims about the rush strike, under SpecRush.                           *)
(***************************************************************************)
\* C16: a rush strike damages, stuns and knocks back an enemy at most once; at
\* each update it does so to every living enemy not yet hit that is within 18 px
\* of its position, and to no other; it is not alive exactly when it has
\* travelled its total distance of 160 px.
C16_RushHitsOncePerEnemy ==
    /\ \A i, j \in DOMAIN hist.hits : i # j => hist.hits[i] # hist.hits[j]
    /\ hist.ok
    /\ hist.travelled <= 160
    /\ Len(rushStrikes) = 0 <=> hist.travelled = 160

\* the rush towards the row has hit the enemy it pushes ahead of itself, has
\* come within 18 px of it again, and has left it alone
C16_Witness ==
    /\ Len(rushStrikes) = 1
    /\ rushStrikes[1].angle = 180
    /\ Len(SelectSeq(hist.hits, LAMBDA id : id = 3)) = 1
    /\ \E i \in 1..Len(enemies) :
          /\ enemies[i].id = 3
          /\ enemies[i].hp = 6000 - 2400
          /\ hypot(enemies[i].x - rushStrikes[1].x, enemies[i].y - rushStrikes[1].y) < 18

(***************************************************************************)
(* SpecSpit: a homing spit.  As in SpecLeap one enemy is at (680,300),     *)
(* stunned or walking, and a Dilophosaurus spit flies at it along the last *)
(* segment of the jungle path.  Each step is one update(dt) of the game,   *)
(* or a hit on the target by another source.  hist counts the updates in   *)
(* which the spit came into contact with its target, the pools deposited   *)
(* and the damage done while the spit was updated, and tells whether every *)
(* pool was deposited where the spit was.                                  *)
(***************************************************************************)
InitSpit ==
    \E x0 \in LeapStarts, stun \in LeapStuns :
        /\ gameSettings = DefaultSettings
        /\ currentMapId = "jungle"
        /\ LET s1 == SpawnTick(StartBtn(InitialState), 999, 999, 0)
               e  == applyStun(EnemyAt(s1.enemies[1], Len(MAPS.jungle.path) - 2), stun)
           IN  Start([s1 EXCEPT !.enemies = <<e>>,
                        !.spits = <<SpitProjectile(x0, e.y, e, 3800, 1200, DilophosaurusPool)>>])
        /\ hist = [contacts |-> 0, deposits |-> 0, damage |-> 0, atImpact |-> TRUE]

\* what update(dt) in state s shows of the spit: s1 is the state when the spit is
\* updated, s2 the state after
SpitObserved(s, dt) ==
    Only(UNION {{LET p  == s2.spits[1]
              i  == TargetIndex(s1, p.target)
              new == SubSeq(s2.acidPools, Len(s1.acidPools) + 1, Len(s2.acidPools))
          IN  [contacts |-> IF /\ TargetAlive(s1, p.target)
                               /\ hypot(p.x - s1.enemies[i].x, p.y - s1.enemies[i].y)
                                      < s1.enemies[i].radius + 6
                            THEN 1 ELSE 0,
               deposits |-> Len(new),
               damage |-> IF i = 0 THEN 0 ELSE s1.enemies[i].hp - s2.enemies[i].hp,
               atImpact |-> \A j \in 1..Len(new) : new[j].x = p.x /\ new[j].y = p.y] :
          s2 \in {UpdateSpits(s1, 1, dt)}} : s1 \in {afterRushes(s, dt)}})

\* one frame while the spit flies
SpitFrame ==
    \E dt \in LeapDts :
        /\ Len(spits) > 0
        /\ Commit(update(S, dt))
        /\ \E o \in {SpitObserved(S, dt)} :
              hist' = [contacts |-> hist.contacts + o.contacts,
                       deposits |-> hist.deposits + o.deposits,
                       damage |-> hist.damage + o.damage,
                       atImpact |-> hist.atImpact /\ o.atImpact]

\* another source damages the target (a Stegosaurus spike, damage 18)
SpitTargetDamaged ==
    /\ Len(spits) > 0
    /\ Len(enemies) > 0
    /\ enemies[1].alive
    /\ Commit(SetEnemy(S, 1, takeDamage(Ctx(S, 1), 3600)))
    /\ UNCHANGED hist

NextSpit ==
    \/ SpitFrame
    \/ SpitTargetDamaged

SpecSpit == InitSpit /\ [][NextSpit]_vars

(***************************************************************************)
(* Claims about the homing spit, under SpecSpit.                           *)
(***************************************************************************)
\* C17: a homing spit deposits exactly one pool, at its impact position, if and
\* only if it comes into contact with its target, and is not alive afterwards;
\* a spit that ends for another reason (its target is not alive, or it has left
\* the bounds) has deposited no pool and done no damage.
C17_SpitDepositsOnContactOnly ==
    /\ hist.contacts <= 1
    /\ hist.deposits = hist.contacts
    /\ hist.atImpact
    /\ hist.damage = 1200 * hist.contacts
    /\ hist.contacts = 1 => Len(spits) = 0

\* the spit has reached its target and left one pool
C17_Witness ==
    /\ hist.contacts = 1
    /\ hist.deposits = 1
    /\ Len(spits) = 0
    /\ Len(acidPools) = 1
    /\ acidPools[1].radius = 60

\* the spit has ended without contact
C17_WitnessNoContact ==
    /\ hist.contacts = 0
    /\ Len(spits) = 0
    /\ Len(acidPools) = 0

(***************************************************************************)
(* SpecTower: a cooldown tower.  A Protoceratops tower stands at (715,340) *)
(* beside the end of the jungle path, and one enemy of wave 1 walks from   *)
(* (580,380), out of its range, past it to the end.  Each step is one      *)
(* update(dt) of the game or a click on the speed button.  hist tells      *)
(* whether the tower acted in the last update, whether it has acted at     *)
(* all, and the simulated time (sum of dt * gameSpeed, counted up to one   *)
(* period) since its last action.                                          *)
(***************************************************************************)
\* dt of a frame: 0 (a second loop callback in the same frame), 0.25 s, 1 s
TowerDts == {0, 5, DtFrame}

InitTower ==
    /\ gameSettings = DefaultSettings
    /\ currentMapId = "jungle"
    /\ LET s1 == SpawnTick(StartBtn(InitialState), 999, 999, 0)
           s2 == CanvasClick(MouseMove(SelectTower(s1, "Protoceratops"), <<715, 340>>))
       IN  Start([s2 EXCEPT !.enemies = <<EnemyAt(s1.enemies[1], 12)>>])
    /\ hist = [fired |-> FALSE, acted |-> FALSE, elapsed |-> 0]

\* update(dt) in state s makes the tower act
TowerActs(s, dt) ==
    \E s1 \in {UpdateEnemies(s, 1, dt)} : UpdateTowers(s1, 1, dt).enemies # s1.enemies

\* one frame while the enemy is on the path
TowerFrame(dt) ==
    /\ Len(enemies) > 0
    /\ Commit(update(S, dt))
    /\ hist' = IF TowerActs(S, dt)
               THEN [fired |-> TRUE, acted |-> TRUE, elapsed |-> 0]
               ELSE [fired |-> FALSE, acted |-> hist.acted,
                     elapsed |-> Min2(22, hist.elapsed + dt * gameSpeed)]

\* fastBtn 'click'
TowerFastBtn ==
    /\ Len(enemies) > 0
    /\ Commit(FastBtn(S))
    /\ UNCHANGED hist

NextTower ==
    \/ \E dt \in TowerDts : TowerFrame(dt)
    \/ TowerFastBtn

SpecTower == InitTower /\ [][NextTower]_vars

(***************************************************************************)
(* Claims about cooldown towers, under SpecTower.                          *)
(***************************************************************************)
\* C18: in every update a cooldown tower decrements its cooldown by
\* dt * gameSpeed; it does not act while the cooldown is still above 0; it acts
\* only when it finds a target, and then sets the cooldown to its period (1.1 s);
\* without a target the cooldown is not reset; two consecutive actions are at
\* least one period of simulated time apart.
C18_CooldownSeparatesActions ==
    [][\A dt \in TowerDts : TowerFrame(dt) =>
          LET cd == towers[1].cooldown - dt * gameSpeed
              s1 == UpdateEnemies(S, 1, dt)
              found == findNearestEnemy(towers[1].x, towers[1].y,
                                        TOWER_TYPES.Protoceratops.range, s1.enemies) # 0
          IN  /\ cd > 0 => ~hist'.fired
              /\ hist'.fired => (found /\ towers'[1].cooldown = 22)
              /\ ~hist'.fired => towers'[1].cooldown = cd
              /\ (cd <= 0 /\ found) => hist'.fired
              /\ (hist'.fired /\ hist.acted) => hist.elapsed + dt * gameSpeed >= 22]_vars

\* the tower has just acted for the second time
C18_Witness ==
    /\ hist.fired
    /\ towers[1].cooldown = 22
    /\ Len(enemies) = 1
    /\ enemies[1].hp = 6000 - 2 * 1400

\* the tower has waited for a target with its cooldown below 0
C18_WitnessNoTarget ==
    /\ ~hist.acted
    /\ towers[1].cooldown < 0

(***************************************************************************)
(* SpecSpeed: the speed multiplier.  In the middle of wave 1 of the jungle *)
(* map a tower (with a cooldown, or with an aura) stands at (715,340), an  *)
(* acid pool lies at (680,340), and an enemy that a leap has made bleed is *)
(* at (680,380), inside both.  Each step is one update(dt) of the game, a  *)
(* click on the speed button, a pause, or a return from the pause menu.    *)
(***************************************************************************)
SpeedTowers == {"Protoceratops", "Brachiosaurus"}

InitSpeed ==
    \E type \in SpeedTowers :
        /\ gameSettings = DefaultSettings
        /\ currentMapId = "jungle"
        /\ LET s1 == SpawnTick(StartBtn(InitialState), 999, 999, 0)
               s2 == CanvasClick(MouseMove(SelectTower(s1, type), <<715, 340>>))
               s3 == [s2 EXCEPT !.enemies = <<EnemyAt(s1.enemies[1], 13)>>,
                                !.acidPools = <<AcidPool(680, 340, DilophosaurusPool.poolRadius,
                                                         DilophosaurusPool.poolDuration,
                                                         DilophosaurusPool.poolDps,
                                                         DilophosaurusPool.poolSlow)>>]
           IN  Start(SetEnemy(s3, 1, HomingLeapHit(Ctx(s3, 1))))
        /\ hist = NoHist

\* one frame while the enemy is on the path
SpeedFrame(dt) ==
    /\ Len(enemies) > 0
    /\ Commit(update(S, dt))
    /\ UNCHANGED hist

\* fastBtn 'click'
SpeedFastBtn ==
    /\ Len(enemies) > 0
    /\ ~menuOpen
    /\ Commit(FastBtn(S))
    /\ UNCHANGED hist

\* pauseBtn 'click'
SpeedPause ==
    /\ Len(enemies) > 0
    /\ ~menuOpen
    /\ Commit(showMainMenuAsPause(S))
    /\ UNCHANGED hist

\* menuCloseBtn 'click'
SpeedMenuClose ==
    /\ menuOpen
    /\ Commit(MenuClose(S))
    /\ UNCHANGED hist

NextSpeed ==
    \/ \E dt \in TowerDts : SpeedFrame(dt)
    \/ SpeedFastBtn
    \/ SpeedPause
    \/ SpeedMenuClose

SpecSpeed == InitSpeed /\ [][NextSpeed]_vars

(***************************************************************************)
(* Claims about the speed multiplier, under SpecSpeed.                     *)
(***************************************************************************)
\* C19: while gameSpeed is 0 an update(dt) changes nothing of the simulation:
\* no enemy's position, waypoint, hp or status timers, no tower's cooldown, no
\* effect's position, lifetime or alive flag, and no tower acts or damages.
C19_PausedUpdateFreezes ==
    [][\A dt \in TowerDts : (gameSpeed = 0 /\ SpeedFrame(dt)) =>
          /\ enemies' = enemies
          /\ towers' = towers
          /\ acidPools' = acidPools
          /\ money' = money
          /\ lives' = lives]_vars

\* C20: the speed multiplier scales every delta of an update alike: an update of
\* length dt with multiplier m changes every status timer, every damage over
\* time, every pool lifetime, every tower cooldown and every position as an
\* update of length m * dt does at multiplier 1.
C20_MultiplierScalesEveryDelta ==
    [][\A dt \in TowerDts : SpeedFrame(dt) =>
          LET ref == update([S EXCEPT !.gameSpeed = 1], gameSpeed * dt)
          IN  /\ enemies' = ref.enemies
              /\ towers' = ref.towers
              /\ acidPools' = ref.acidPools]_vars

(***************************************************************************)
(* Claims about the effects leaving the canvas, under SpecRush.            *)
(***************************************************************************)
\* the five effect lists, as one set of effects
AllEffects(s) ==
    {s.raptorLeaps[k] : k \in 1..Len(s.raptorLeaps)} \cup
    {s.rushStrikes[k] : k \in 1..Len(s.rushStrikes)} \cup
    {s.spits[k] : k \in 1..Len(s.spits)} \cup
    {s.acidPools[k] : k \in 1..Len(s.acidPools)} \cup
    {s.spikes[k] : k \in 1..Len(s.spikes)}

\* C21: after any update no alive effect of any variant (homing strike, rush
\* strike, homing spit, area pool, pierce bolt) is outside the canvas extended
\* by the margin of 40 px.
C21_AliveEffectsInBounds ==
    \A o \in AllEffects(S) : o.alive => ~OutOfBounds(o)

(***************************************************************************)
(* SpecSelect: selectPathByWeight as a function of the weights of the      *)
(* active path set and of the draw.  The weights are whole numbers that    *)
(* need not add up to 100 and may be zero (not all of them); the draw is   *)
(* Math.random() in per mille.  hist holds the input and, once the         *)
(* function has been applied, the index it returned.                       *)
(***************************************************************************)
WeightValues == {0, 1, 3, 40}
SelectWeights ==
    {w \in UNION {[1..n -> WeightValues] : n \in 1..3} : SumSeq(w) > 0}
SelectDraws == {0, 1, 249, 250, 251, 333, 334, 499, 500, 749, 750, 751, 975, 976, 999}

InitSelect ==
    /\ gameSettings = DefaultSettings
    /\ currentMapId = "jungle"
    /\ Start(InitialState)
    /\ \E w \in SelectWeights, r \in SelectDraws :
          hist = [weights |-> w, r |-> r, called |-> FALSE, index |-> 0]

\* one call of selectPathByWeight()
SelectCall ==
    /\ ~hist.called
    /\ hist' = [hist EXCEPT !.called = TRUE,
                            !.index = selectPathAmong(Len(hist.weights), hist.weights, hist.r)]
    /\ UNCHANGED <<money, lives, wave, gameSpeed, autoNextTimerId, autoNextTimeouts, isPaused,
                   previousGameSpeed, previewPos, selectedType, currentMapId,
                   gameSettings, autoNextChecked, ENEMY_ID_SEQ, enemies, towers,
                   acidPools, raptorLeaps, rushStrikes, spits, spikes, spawning,
                   spawnTimerId, spawnJob, rafPending, rafRunning, menuOpen, vfx>>

NextSelect == SelectCall

SpecSelect == InitSelect /\ [][NextSelect]_vars

\* the sum of the first k weights
RECURSIVE PrefixSum(_, _)
PrefixSum(w, k) == IF k = 0 THEN 0 ELSE PrefixSum(w, k - 1) + w[k]

\* C22: selectPath returns an index i in 0..n-1, and for the draw r it is the i
\* with (w_1 + .. + w_i) / W <= r < (w_1 + .. + w_(i+1)) / W, W the sum of all
\* weights, whether or not the weights add up to 1; a path of weight zero is
\* never chosen.
C22_SelectPathProportional ==
    hist.called =>
        LET w == hist.weights
            i == hist.index
            total == PrefixSum(w, Len(w))
        IN  /\ i \in 0..(Len(w) - 1)
            /\ PrefixSum(w, i) * 1000 <= hist.r * total
            /\ hist.r * total < PrefixSum(w, i + 1) * 1000
            /\ w[i + 1] > 0

\* weights 3, 0, 1 (sum 4, not 100) and the draw 0.75: the third path is chosen,
\* the second, of weight zero, is passed over
C22_Witness ==
    /\ hist.called
    /\ hist.weights = <<3, 0, 1>>
    /\ hist.r = 750
    /\ hist.index = 2

(***************************************************************************)
(* SpecVfx: the pools of effects.js.  Gameplay code spawns particles,      *)
(* bursts and damage numbers, the frame calls VFX.update, the options set  *)
(* the flags, and the console assigns the caps of VFX.config, which the    *)
(* file offers for runtime tuning.  The game itself stands still.  hist    *)
(* tells whether the last step was a spawn or an update (called) and       *)
(* whether every spawn at the cap has dropped the oldest entry.            *)
(***************************************************************************)
\* the most entries a pool holds in the model
MaxPool == 3
\* the caps the console assigns
VfxCaps == {1, 2}
\* particle lives: 0.25 s and 0.65 s
VfxLives == {5, 13}
VfxDts == {DtFrame, 8}

VfxStep(next) ==
    /\ Len(next.particles) <= MaxPool
    /\ Len(next.damageNumbers) <= MaxPool
    /\ vfx' = next
    /\ UNCHANGED <<money, lives, wave, gameSpeed, autoNextTimerId, autoNextTimeouts, isPaused,
                   previousGameSpeed, previewPos, selectedType, currentMapId,
                   gameSettings, autoNextChecked, ENEMY_ID_SEQ, enemies, towers,
                   acidPools, raptorLeaps, rushStrikes, spits, spikes, spawning,
                   spawnTimerId, spawnJob, rafPending, rafRunning, menuOpen>>

InitVfx ==
    /\ gameSettings = DefaultSettings
    /\ currentMapId = "jungle"
    /\ Start(InitialState)
    /\ hist = [dropped |-> TRUE, called |-> FALSE]

\* VFX.spawnParticle(x, y, opts)
VfxSpawnParticle ==
    \E life \in VfxLives :
        /\ vfx.flags.particles
        /\ VfxStep(spawnParticle(vfx, life))
        /\ hist' = [called |-> TRUE,
                    dropped |-> /\ hist.dropped
                                /\ Len(vfx.particles) >= vfx.config.maxParticles
                                      => /\ vfx'.particles[Len(vfx'.particles)].t = 0
                                         /\ SubSeq(vfx'.particles, 1, Len(vfx'.particles) - 1)
                                               = Shift(vfx.particles)]

\* VFX.spawnBurst(x, y, 2, {life})
VfxSpawnBurst ==
    \E life \in VfxLives :
        /\ vfx.flags.particles
        /\ VfxStep(spawnBurst(vfx, 2, life))
        /\ hist' = [hist EXCEPT !.called = TRUE]

\* VFX.spawnDamageNumber(x, y, amount)
VfxSpawnDamageNumber ==
    /\ vfx.flags.showDamageNumbers
    /\ VfxStep(spawnDamageNumber(vfx))
    /\ hist' = [called |-> TRUE,
                dropped |-> /\ hist.dropped
                            /\ Len(vfx.damageNumbers) >= vfx.config.maxDamageNumbers
                                  => /\ vfx'.damageNumbers[Len(vfx'.damageNumbers)].t = 0
                                     /\ SubSeq(vfx'.damageNumbers, 1, Len(vfx'.damageNumbers) - 1)
                                           = Shift(vfx.damageNumbers)]

\* VFX.update(dt)
VfxFrame ==
    \E dt \in VfxDts :
        /\ vfx.particles # <<>> \/ vfx.damageNumbers # <<>>
        /\ VfxStep(VfxUpdate(vfx, dt))
        /\ hist' = [hist EXCEPT !.called = TRUE]

\* VFX.setFlags({particles, showDamageNumbers})
VfxSetFlags ==
    \E p, d \in BOOLEAN :
        /\ VfxStep(setFlags(vfx, p, d))
        /\ hist' = [hist EXCEPT !.called = FALSE]

\* VFX.config.maxParticles = n, from the console
VfxSetMaxParticles ==
    \E n \in VfxCaps :
        /\ VfxStep([vfx EXCEPT !.config.maxParticles = n])
        /\ hist' = [hist EXCEPT !.called = FALSE]

\* VFX.config.maxDamageNumbers = n, from the console
VfxSetMaxDamageNumbers ==
    \E n \in VfxCaps :
        /\ VfxStep([vfx EXCEPT !.config.maxDamageNumbers = n])
        /\ hist' = [hist EXCEPT !.called = FALSE]

NextVfx ==
    \/ VfxSpawnParticle
    \/ VfxSpawnBurst
    \/ VfxSpawnDamageNumber
    \/ VfxFrame
    \/ VfxSetFlags
    \/ VfxSetMaxParticles
    \/ VfxSetMaxDamageNumbers

SpecVfx == InitVfx /\ [][NextVfx]_vars

\* C23: after any sequence of spawns and updates the pool of particles holds at
\* most VFX.config.maxParticles entries and the pool of damage numbers at most
\* VFX.config.maxDamageNumbers, also after the cap has been lowered at runtime;
\* a spawn at the cap drops the oldest entry and admits the new one.
C23_PoolsWithinCaps ==
    hist.called =>
        /\ Len(vfx.particles) <= vfx.config.maxParticles
        /\ Len(vfx.damageNumbers) <= vfx.config.maxDamageNumbers
        /\ hist.dropped

(***************************************************************************)
(* SpecAuto: waves that follow each other.  The player starts waves and    *)
(* ticks the auto-next box, the spawner spawns, the enemies walk the       *)
(* jungle path to its end in long frames, and the timeout that update      *)
(* sets starts the next wave.  The timeout runs 1000 ms after it was set   *)
(* and the spawner every 750 ms, so at most one spawn happens while a      *)
(* timeout is pending: hist.spawns counts the spawns since the timeout was *)
(* set.  hist.autoStarted tells whether the timeout began the current wave.*)
(* hist.rejected tells whether the last step was a start (by the button or *)
(* by the timeout) made while a wave was spawning.                         *)
(***************************************************************************)
AutoDts == {DtLong}

InitAuto ==
    /\ gameSettings = DefaultSettings
    /\ currentMapId = "jungle"
    /\ Start(InitialState)
    /\ hist = [spawns |-> 0, autoStarted |-> FALSE, rejected |-> FALSE]

\* one frame: update(dt)
AutoFrame(dt) ==
    /\ lives > 0
    /\ Commit(update(S, dt))
    /\ hist' = [hist EXCEPT !.spawns = IF autoNextTimeouts' > autoNextTimeouts THEN 0 ELSE @,
                            !.rejected = FALSE]

\* startBtn 'click'
AutoStartBtn ==
    /\ wave < MaxWave
    /\ Commit(StartBtn(S))
    /\ hist' = [hist EXCEPT !.autoStarted = @ /\ wave' = wave, !.rejected = spawning]

\* the spawner's interval callback
AutoSpawnInterval ==
    /\ spawnTimerId
    /\ Len(enemies) < MaxEnemies
    /\ ENEMY_ID_SEQ <= MaxIds
    /\ autoNextTimeouts > 0 => hist.spawns = 0
    /\ \E rElite \in Rolls, rSteam \in Rolls, rPath \in PathRolls :
          Commit(SpawnTick(S, rElite, rSteam, rPath))
    /\ hist' = [hist EXCEPT !.spawns = IF autoNextTimeouts > 0 THEN @ + 1 ELSE @,
                            !.rejected = FALSE]

\* the player ticks or clears the auto-next box
AutoToggle ==
    /\ Commit([S EXCEPT !.autoNextChecked = ~@])
    /\ hist' = [hist EXCEPT !.rejected = FALSE]

\* the timeout set by update runs
AutoTimeout ==
    /\ autoNextTimeouts > 0
    /\ wave < MaxWave
    /\ Commit(AutoNextTimeout(S))
    /\ hist' = [hist EXCEPT !.autoStarted = @ \/ wave' > wave, !.rejected = spawning]

\* restartBtn 'click'
AutoRestart ==
    /\ wave > 0
    /\ wave <= MaxRestartWave
    /\ Commit([restartGame(S) EXCEPT !.rafPending = 1])
    /\ hist' = [hist EXCEPT !.autoStarted = FALSE, !.rejected = FALSE]

NextAuto ==
    \/ \E dt \in AutoDts : AutoFrame(dt)
    \/ AutoStartBtn
    \/ AutoSpawnInterval
    \/ AutoToggle
    \/ AutoTimeout
    \/ AutoRestart

SpecAuto == InitAuto /\ [][NextAuto]_vars

\* C24: in every tick the enemies, the towers and the effects are updated, then
\* the dead are pruned from every list, and only then the auto-next check is
\* made: after update a timeout is pending exactly if no wave is spawning, the
\* pruned enemy list is empty and the auto-next box is ticked.
C24_CheckAfterPruning ==
    [][\A dt \in AutoDts :
          AutoFrame(dt) =>
              (autoNextTimerId' <=> (~spawning' /\ enemies' = <<>> /\ autoNextChecked'))]_vars

(***************************************************************************)
(* Claims about the number of loop callbacks, under Spec.                  *)
(***************************************************************************)
\* C25: one update(dt) is made per animation frame: at any time at most one
\* callback of the game loop is pending, whatever the sequence of start-up, menu
\* Play, restart and game-over events.
C25_OneLoopCallbackPending == rafPending + rafRunning <= 1

\* the condition of the auto-next check, of the state after the tick
AutoNextDue == ~spawning' /\ enemies' = <<>> /\ autoNextChecked'

\* C26: update leaves a timeout pending only if no wave is spawning, the enemy
\* list is empty and the auto-next box is ticked, so a pending timeout is
\* cancelled at the first tick at which that does not hold; at most one timeout
\* is pending at a time; and the timeout never begins a wave while a wave is
\* spawning or enemies remain.
C26_AutoNextScheduling ==
    /\ [](autoNextTimeouts = IF autoNextTimerId THEN 1 ELSE 0)
    /\ [][/\ \A dt \in AutoDts : AutoFrame(dt) => (autoNextTimeouts' > 0 => AutoNextDue)
          /\ (AutoTimeout /\ wave' > wave) => (~spawning /\ enemies = <<>>)]_vars

\* the timeout has begun wave 2, which is spawning
C26_Witness ==
    /\ hist.autoStarted
    /\ wave = 2
    /\ spawning
    /\ autoNextTimeouts = 0

\* a pending timeout has been cancelled by the tick after the box was cleared
C26_WitnessCancelled ==
    /\ ~autoNextChecked
    /\ ~spawning
    /\ enemies = <<>>
    /\ wave = 1
    /\ autoNextTimeouts = 0
    /\ ~autoNextTimerId

(***************************************************************************)
(* Claims about the movement of an enemy, under SpecEnemy.                 *)
(***************************************************************************)
\* the distance between enemy e and point p
DistTo(e, p) == hypot(p[1] - e.x, p[2] - e.y)

\* the step of enemy e2 in an update(dt): its speed after the slow timer has decayed
StepOf(e2, dt) == (e2.baseSpeed * e2.slowFactor * gameSpeed * dt) \div 20000

\* e2 is on the segment from point a to point b, at distance d from a
AlongSegment(e2, a, b, d) ==
    /\ DistTo(e2, a) = d
    /\ DistTo(e2, a) + DistTo(e2, b) = hypot(b[1] - a[1], b[2] - a[2])

\* the update reaches the movement: the enemy is alive, not stunned, has a next
\* waypoint and is not killed by its bleed in this update
Travels(e, dt) ==
    /\ e.alive
    /\ e.stunTimer <= 0
    /\ nextTarget(e) # <<>>
    /\ ~(e.bleedTimer > 0 /\ e.hp - e.bleedDps * dt <= 0)

\* C27: when the step of a traveling enemy reaches or passes the next waypoint
\* (distance <= step + 2), the update puts it on that waypoint, adds exactly 1
\* to its waypoint index and spends the rest of the step along the next segment,
\* as far as that segment goes; otherwise it advances by the step towards the
\* waypoint; no update decreases the waypoint index or moves the enemy back.
C27_WaypointByWaypoint ==
    [][\A i \in 1..Len(enemies) : \A dt \in EnemyDts :
          EnemyTick(i, dt) =>
              LET e == enemies[i]
                  e2 == enemies'[i]
                  target == nextTarget(e)
                  d == DistTo(e, target)
                  step == StepOf(e2, dt)
              IN  /\ e2.waypoint >= e.waypoint
                  /\ (e2.waypoint = e.waypoint /\ target # <<>>) => DistTo(e2, target) <= d
                  /\ (Travels(e, dt) /\ d <= step + 2) =>
                        /\ e2.waypoint = e.waypoint + 1
                        /\ IF e2.waypoint >= Len(PathOf(e)) - 1
                           THEN ~e2.alive /\ e2.x = target[1] /\ e2.y = target[2]
                           ELSE /\ e2.alive
                                /\ AlongSegment(e2, target, nextTarget(e2),
                                                Min2(Max2(step - d, 0),
                                                     DistTo([e EXCEPT !.x = target[1],
                                                                      !.y = target[2]],
                                                            nextTarget(e2))))
                  /\ (Travels(e, dt) /\ d > step + 2) =>
                        /\ e2.waypoint = e.waypoint
                        /\ AlongSegment(e2, currentWaypoint(e), target,
                                        DistTo(e, currentWaypoint(e)) + step)
      ]_vars


\* enemy 2 started on waypoint 13: it has passed waypoint 14 and spent the rest
\* of its step on the last segment
C27_Witness ==
    /\ Len(enemies) = 2
    /\ enemies[2].alive /\ enemies[2].waypoint = 14
    /\ enemies[2].y = 300 /\ enemies[2].x > 680 /\ enemies[2].x < 750

\* a step longer than the next segment: enemy 2 stands on the last waypoint
\* with index 14, it has not skipped a waypoint
C27_WitnessLongStep ==
    /\ Len(enemies) = 2
    /\ enemies[2].alive /\ enemies[2].waypoint = 14
    /\ enemies[2].y = 300 /\ enemies[2].x = 750


\* the status fields of enemy e are in their ranges
StatusInRange(e) ==
    /\ e.bleedDps >= 0 /\ e.bleedTimer >= 0
    /\ e.slowTimer >= 0 /\ e.stunTimer >= 0
    /\ 0 < e.slowFactor /\ e.slowFactor <= 100

\* an update raised no timer of the enemy
TimersDecay(e, e2) ==
    /\ e2.bleedTimer <= e.bleedTimer
    /\ e2.slowTimer <= e.slowTimer
    /\ e2.stunTimer <= e.stunTimer

\* a timer at 0 has left its effect neutral
ExpiredIsNeutral(e2) ==
    /\ e2.bleedTimer = 0 => e2.bleedDps = 0
    /\ e2.slowTimer = 0 => e2.slowFactor = 100

\* C28: in every state each enemy has bleedDps >= 0, bleedTimer >= 0,
\* slowTimer >= 0, stunTimer >= 0 and 0 < slowFactor <= 1; no timer increases
\* during update; after every update bleedTimer = 0 implies bleedDps = 0 and
\* slowTimer = 0 implies slowFactor = 1.
C28_StatusFieldsInRange ==
    /\ [](\A i \in 1..Len(enemies) : StatusInRange(enemies[i]))
    /\ [][\A i \in 1..Len(enemies) : \A dt \in EnemyDts :
            EnemyTick(i, dt) => /\ TimersDecay(enemies[i], enemies'[i])
                                /\ ExpiredIsNeutral(enemies'[i])]_vars


(***************************************************************************)
(* SpecScan: the lists during one update.  In wave 1 of the jungle map a   *)
(* Dilophosaurus stands at (640,300), left of the last segment of the      *)
(* path; one enemy is at the corner (680,300), unhurt or with 6 hp left,   *)
(* and one is 40 px further on.  Each step is one update(dt) of the game.  *)
(* hist.scan lists, for the state before the update and the state after    *)
(* each of its seven loops (enemies, towers, leaps, rushes, spits, pools,  *)
(* spikes), the lengths of the six lists and the number of enemies and of  *)
(* effects that are not alive.                                             *)
(***************************************************************************)
ScanDts == {1, DtFrame}
ScanHps == {6000, 1200}

InitScan ==
    \E hp \in ScanHps :
        /\ gameSettings = DefaultSettings
        /\ currentMapId = "jungle"
        /\ LET s1 == SpawnTick(StartBtn(InitialState), 999, 999, 0)
               s2 == SpawnTick(s1, 999, 999, 0)
               s3 == CanvasClick(MouseMove(SelectTower(s2, "Dilophosaurus"), <<640, 300>>))
           IN  Start([s3 EXCEPT !.enemies =
                         <<[EnemyAt(s2.enemies[1], 14) EXCEPT !.x = 720],
                           [EnemyAt(s2.enemies[2], 14) EXCEPT !.hp = hp]>>])
        /\ hist = [scan |-> <<>>]

\* update, lines 1680-1689: the p-th loop of update
ScanPhase(s, p, dt) ==
    CASE p = 1 -> UpdateEnemies(s, 1, dt)
      [] p = 2 -> UpdateTowers(s, 1, dt)
      [] p = 3 -> UpdateLeaps(s, 1, dt)
      [] p = 4 -> UpdateRushes(s, 1, dt)
      [] p = 5 -> UpdateSpits(s, 1, dt)
      [] p = 6 -> UpdateAcidPools(s, 1, dt)
      [] p = 7 -> UpdateSpikes(s, 1, dt)

\* the number of entries of q that are not alive
DeadIn(q) == Cardinality({i \in 1..Len(q) : ~q[i].alive})

\* what is seen of the lists in state s
ScanSeen(s) ==
    [lens |-> <<Len(s.enemies), Len(s.raptorLeaps), Len(s.rushStrikes),
                Len(s.spits), Len(s.acidPools), Len(s.spikes)>>,
     deadEnemies |-> DeadIn(s.enemies),
     deadEffects |-> DeadIn(s.raptorLeaps) + DeadIn(s.rushStrikes) + DeadIn(s.spits)
                         + DeadIn(s.acidPools) + DeadIn(s.spikes)]

\* the lists before loop p and after each loop from p on
RECURSIVE ScanFrom(_, _, _)
ScanFrom(s, p, dt) ==
    IF p > 7 THEN <<ScanSeen(s)>>
    ELSE Only({<<ScanSeen(s)>> \o ScanFrom(n, p + 1, dt) : n \in {ScanPhase(s, p, dt)}})

\* one frame while a list is not empty
ScanFrame(dt) ==
    /\ Len(enemies) + Cardinality(AllEffects(S)) > 0
    /\ Commit(update(S, dt))
    /\ \E o \in {ScanFrom(S, 1, dt)} : hist' = [scan |-> o]

NextScan == \E dt \in ScanDts : ScanFrame(dt)

SpecScan == InitScan /\ [][NextScan]_vars

\* C29: at the end of every update no list of enemies or effects holds an entry
\* that is not alive, and an enemy that has been pruned is never in the list
\* again: every enemy in the list was in it before the step or is newly made.
C29_NoDeadAfterUpdate ==
    [][/\ (\E dt \in ScanDts : ScanFrame(dt)) =>
              /\ \A i \in 1..Len(enemies') : enemies'[i].alive
              /\ \A o \in AllEffects(S)' : o.alive
       /\ ENEMY_ID_SEQ' >= ENEMY_ID_SEQ
       /\ \A i \in 1..Len(enemies') :
              \/ \E j \in 1..Len(enemies) : enemies[j].id = enemies'[i].id
              \/ enemies'[i].id >= ENEMY_ID_SEQ]_vars

\* the last update has pruned an enemy and an effect
C29_Witness ==
    /\ hist.scan # <<>>
    /\ hist.scan[8].deadEnemies > 0
    /\ hist.scan[8].deadEffects > 0
    /\ Len(enemies) = 1

\* C30: during the loops of update over the enemies, the towers and the effects
\* no element is added to or removed from any list of enemies or effects.
C30_NoChangeDuringScans ==
    hist.scan # <<>> => \A p \in 2..8 : hist.scan[p].lens = hist.scan[1].lens

\* the loop that scans list L of ScanSeen (enemies in loop 1, leaps in 3, rushes
\* in 4, spits in 5, pools in 6, spikes in 7)
OwnLoop == <<1, 3, 4, 5, 6, 7>>

\* C30, amended: during the loops of update no element is removed from any list,
\* and an element is added only to a list that a later loop of the same update
\* scans; no list changes while it is scanned.
C30_AddedOnlyToLaterLists ==
    hist.scan # <<>> =>
        \A p \in 1..7 : \A L \in 1..6 :
            /\ hist.scan[p + 1].lens[L] >= hist.scan[p].lens[L]
            /\ hist.scan[p + 1].lens[L] > hist.scan[p].lens[L] => OwnLoop[L] > p

\* the last update has added a pool in the loop over the spits (the spit was
\* added by the tower in an earlier update)
C30_Witness ==
    /\ hist.scan # <<>>
    /\ hist.scan[6].lens[5] > hist.scan[5].lens[5]
    /\ hist.scan[6].lens[4] = hist.scan[5].lens[4]

\* the last update has added a spit in the loop over the towers
C30_WitnessTower ==
    /\ hist.scan # <<>>
    /\ hist.scan[3].lens[4] > hist.scan[2].lens[4]


(***************************************************************************)
(* SpecNearest: findNearestEnemy.  hist holds the arguments of one call (a *)
(* tower at (100,100), its range, and up to MaxNear enemies, living or     *)
(* not, at the same distance, on the border of the range or outside it)    *)
(* and, once the call is made, the index it returns (0 for null).          *)
(***************************************************************************)
MaxNear == 3
NearRanges == {50, 110}
\* at 30 px (twice), at 50 px (twice), at 51 px
NearPoints == {<<100, 130>>, <<130, 100>>, <<100, 150>>, <<140, 130>>, <<100, 151>>}
NearEnemies == {[x |-> p[1], y |-> p[2], alive |-> a] : p \in NearPoints, a \in BOOLEAN}
NearLists == UNION {[1..n -> NearEnemies] : n \in 0..MaxNear}

InitNearest ==
    /\ gameSettings = DefaultSettings
    /\ currentMapId = "jungle"
    /\ Start(InitialState)
    /\ \E es \in NearLists, range \in NearRanges :
          hist = [x |-> 100, y |-> 100, range |-> range, es |-> es,
                  called |-> FALSE, best |-> 0]

\* one call of findNearestEnemy(x, y, range, enemies)
NearestCall ==
    /\ ~hist.called
    /\ hist' = [hist EXCEPT !.called = TRUE,
                            !.best = findNearestEnemy(hist.x, hist.y, hist.range, hist.es)]
    /\ UNCHANGED <<money, lives, wave, gameSpeed, autoNextTimerId, autoNextTimeouts, isPaused,
                   previousGameSpeed, previewPos, selectedType, currentMapId,
                   gameSettings, autoNextChecked, ENEMY_ID_SEQ, enemies, towers,
                   acidPools, raptorLeaps, rushStrikes, spits, spikes, spawning,
                   spawnTimerId, spawnJob, rafPending, rafRunning, menuOpen, vfx>>

NextNearest == NearestCall

SpecNearest == InitNearest /\ [][NextNearest]_vars

\* the distance of enemy i of the call from the tower
NearDist(i) == hypot(hist.es[i].x - hist.x, hist.es[i].y - hist.y)

\* the living enemies of the call within the range
NearCandidates == {i \in 1..Len(hist.es) : hist.es[i].alive /\ NearDist(i) <= hist.range}

\* C31: findNearestEnemy returns a living enemy at distance <= range whose
\* distance is minimal among the living enemies in range, the first of them in
\* the order of the list when several are at that distance, and null when no
\* living enemy is in range.
C31_NearestFirstFound ==
    hist.called =>
        IF NearCandidates = {} THEN hist.best = 0
        ELSE /\ hist.best \in NearCandidates
             /\ \A j \in NearCandidates :
                   /\ NearDist(hist.best) <= NearDist(j)
                   /\ NearDist(j) = NearDist(hist.best) => hist.best <= j

\* a call with an enemy that is not alive first, one on the border of the range,
\* and two at the same smaller distance: the first of these two is returned
C31_Witness ==
    /\ hist.called
    /\ hist.range = 50
    /\ Len(hist.es) = 3
    /\ ~hist.es[1].alive /\ NearDist(1) = 30
    /\ hist.es[2].alive /\ hist.es[3].alive
    /\ NearDist(2) = 50 /\ NearDist(3) = 50 /\ hist.es[2] # hist.es[3]
    /\ hist.best = 2

\* a call without a living enemy in range returns null
C31_WitnessNone ==
    /\ hist.called
    /\ Len(hist.es) = 2
    /\ hist.range = 50
    /\ hist.es[1].alive /\ NearDist(1) = 51
    /\ ~hist.es[2].alive /\ NearDist(2) = 30
    /\ hist.best = 0


\* C32: at most one wave is spawning: a start made while spawning is true (by
\* the button or by the auto-next timeout) leaves the wave number, the money,
\* the spawner's timer and its job as they were, and the spawner's timer is set
\* exactly when spawning is true, however starts, timeouts, spawns and restarts
\* follow each other.
C32_OneWaveSpawning ==
    /\ [](spawning <=> spawnTimerId)
    /\ [][((AutoStartBtn \/ AutoTimeout) /\ spawning) =>
              /\ wave' = wave /\ money' = money
              /\ spawning' /\ spawnTimerId' /\ spawnJob' = spawnJob
              /\ enemies' = enemies]_vars

\* the auto-next timeout has run while wave 1, started by the button, was spawning
C32_Witness ==
    /\ hist.rejected
    /\ ~hist.autoStarted
    /\ wave = 1 /\ spawning /\ spawnJob.spawned = 0
    /\ autoNextChecked /\ ~autoNextTimerId /\ autoNextTimeouts = 0


(***************************************************************************)
(* SpecMoney: the money.  In wave 1 of the jungle map a Brachiosaurus      *)
(* (cost 95) stands at (715,340), near the end of the path, and the first  *)
(* enemy is within its range.  The player moves the mouse, selects a       *)
(* tower, clicks on the canvas, starts waves and restarts; the spawner     *)
(* spawns and the enemies walk the path in long frames.                    *)
(***************************************************************************)
MoneyTypes == {"Brachiosaurus", "Stonklodon"}
\* a free place
MoneyPoints == {<<300, 400>>}

InitMoney ==
    /\ gameSettings = DefaultSettings
    /\ currentMapId = "jungle"
    /\ LET s1 == SpawnTick(StartBtn(InitialState), 999, 999, 0)
           s2 == CanvasClick(MouseMove(SelectTower(s1, "Brachiosaurus"), <<715, 340>>))
       IN  Start([s2 EXCEPT !.enemies = <<EnemyAt(s1.enemies[1], 13)>>])
    /\ hist = NoHist

\* one frame: update(dt)
MoneyFrame ==
    /\ Len(enemies) > 0
    /\ Commit(update(S, DtLong))
    /\ UNCHANGED hist

MoneyMouseMove ==
    /\ \E p \in MoneyPoints : Commit(MouseMove(S, p))
    /\ UNCHANGED hist

MoneySelectTower ==
    /\ \E t \in MoneyTypes : Commit(SelectTower(S, t))
    /\ UNCHANGED hist

MoneyCanvasClick ==
    /\ Len(towers) < MaxTowers
    /\ Commit(CanvasClick(S))
    /\ UNCHANGED hist

MoneyStartBtn ==
    /\ wave < MaxWave
    /\ Commit(StartBtn(S))
    /\ UNCHANGED hist

MoneySpawnInterval ==
    /\ spawnTimerId
    /\ Len(enemies) < MaxEnemies
    /\ ENEMY_ID_SEQ <= MaxIds
    /\ \E rElite \in Rolls, rSteam \in Rolls, rPath \in PathRolls :
          Commit(SpawnTick(S, rElite, rSteam, rPath))
    /\ UNCHANGED hist

MoneyRestart ==
    /\ wave > 0
    /\ wave <= MaxRestartWave
    /\ Commit([restartGame(S) EXCEPT !.rafPending = 1])
    /\ UNCHANGED hist

NextMoney ==
    \/ MoneyFrame
    \/ MoneyMouseMove
    \/ MoneySelectTower
    \/ MoneyCanvasClick
    \/ MoneyStartBtn
    \/ MoneySpawnInterval
    \/ MoneyRestart

SpecMoney == InitMoney /\ [][NextMoney]_vars

C33_WitnessRefused ==
    /\ money = 5
    /\ selectedType = "Stonklodon"
    /\ previewPos = <<300, 400>>
    /\ Len(towers) = 1


(***************************************************************************)
(* SpecPause: pause, speed and the timers.  The game starts at the main    *)
(* menu with the auto-next box ticked.  The player starts waves, pauses    *)
(* (pause button, Escape or P), closes the menu, clicks the speed button   *)
(* and restarts; the spawner's interval and the auto-next timeout run, and *)
(* the loop runs update in long frames.  hist.speedAtPause is gameSpeed as *)
(* it was when the last pause began.                                       *)
(***************************************************************************)
InitPause ==
    /\ gameSettings = DefaultSettings
    /\ currentMapId = "jungle"
    /\ Start([InitialState EXCEPT !.autoNextChecked = TRUE])
    /\ hist = [speedAtPause |-> 1]

PauseStep(next) ==
    /\ Commit(next)
    /\ hist' = [speedAtPause |-> IF ~isPaused /\ isPaused' THEN gameSpeed
                                 ELSE hist.speedAtPause]

\* pauseBtn 'click'
PausePauseBtn == PauseStep(showMainMenuAsPause(S))

\* Escape or P
PauseKey ==
    PauseStep(IF menuOpen THEN hideMainMenuAndModals(S) ELSE showMainMenuAsPause(S))

\* menuCloseBtn 'click'
PauseMenuClose == menuOpen /\ PauseStep(MenuClose(S))

\* fastBtn 'click', with the menu out of the way
PauseFastBtn == ~menuOpen /\ PauseStep(FastBtn(S))

\* startBtn 'click'
PauseStartBtn == wave < MaxWave /\ PauseStep(StartBtn(S))

\* restartBtn 'click'
PauseRestart ==
    /\ wave > 0
    /\ wave <= MaxRestartWave
    /\ PauseStep([restartGame(S) EXCEPT !.rafPending = 1])

\* the spawner's interval callback
PauseSpawnInterval ==
    /\ spawnTimerId
    /\ Len(enemies) < MaxEnemies
    /\ ENEMY_ID_SEQ <= MaxIds
    /\ \E rElite \in Rolls, rSteam \in Rolls, rPath \in PathRolls :
          PauseStep(SpawnTick(S, rElite, rSteam, rPath))

\* the timeout set by update runs
PauseTimeout ==
    /\ autoNextTimeouts > 0
    /\ wave < MaxWave
    /\ PauseStep(AutoNextTimeout(S))

\* one frame: update(dt)
PauseFrame == lives > 0 /\ PauseStep(update(S, DtLong))

NextPause ==
    \/ PausePauseBtn
    \/ PauseKey
    \/ PauseMenuClose
    \/ PauseFastBtn
    \/ PauseStartBtn
    \/ PauseRestart
    \/ PauseSpawnInterval
    \/ PauseTimeout
    \/ PauseFrame

SpecPause == InitPause /\ [][NextPause]_vars

\* C34: isPaused is true exactly when gameSpeed is 0, however pause, resume,
\* the speed button and restart follow each other, and a resume puts gameSpeed
\* back to what it was when the pause began.
C34_PausedIffStopped ==
    /\ [](isPaused <=> gameSpeed = 0)
    /\ [][(isPaused /\ ~isPaused') => gameSpeed' = hist.speedAtPause]_vars

\* C35: while gameSpeed is 0 no callback of the spawner's interval, of the
\* auto-next timeout or of the loop adds an enemy or starts a wave: the list of
\* enemies gets no new entry, and wave and money stay as they are.
C35_NothingSpawnsWhilePaused ==
    [][(gameSpeed = 0 /\ (PauseSpawnInterval \/ PauseTimeout \/ PauseFrame)) =>
           /\ Len(enemies') <= Len(enemies)
           /\ ENEMY_ID_SEQ' = ENEMY_ID_SEQ
           /\ wave' = wave
           /\ money' = money]_vars


(***************************************************************************)
(* SpecSlam: an area slam.  In wave 1 of the jungle map an Ankylosaurus    *)
(* (range 145, slam radius 85) stands at (610,290); the first enemy is at  *)
(* a corner of the path's end, (680,380) being 114 px from the tower, and  *)
(* walks on past (680,300), 71 px from it.  Each step is one update(dt) of *)
(* the game.  hist tells whether the tower reset its cooldown in the last  *)
(* update and whether the loop over the towers changed an enemy or a list  *)
(* of effects.                                                             *)
(***************************************************************************)
SlamDts == {5, DtFrame}
SlamWaypoints == {12, 13}

InitSlam ==
    /\ gameSettings = DefaultSettings
    /\ currentMapId = "jungle"
    /\ LET s1 == SpawnTick(StartBtn(InitialState), 999, 999, 0)
           \* two kills and a wave bonus have paid for the tower (cost 110)
           s2 == CanvasClick(MouseMove(SelectTower([s1 EXCEPT !.money = 140], "Ankylosaurus"),
                                       <<610, 290>>))
       IN  \E w \in SlamWaypoints :
               Start([s2 EXCEPT !.enemies = <<EnemyAt(s1.enemies[1], w)>>])
    /\ hist = [fired |-> FALSE, affected |-> FALSE]

\* what the loop over the towers of update(dt) does in state s
SlamObserved(s, dt) ==
    Only(UNION {{[fired |-> s2.towers[1].cooldown = 42
                            /\ s1.towers[1].cooldown - dt * s1.gameSpeed <= 0,
                  affected |-> \/ s2.enemies # s1.enemies
                               \/ Cardinality(AllEffects(s2)) # Cardinality(AllEffects(s1))
                               \/ Len(s2.acidPools) # Len(s1.acidPools)] :
                 s2 \in {UpdateTowers(s1, 1, dt)}} : s1 \in {UpdateEnemies(s, 1, dt)}})

\* one frame while the enemy is on the path
SlamFrame ==
    \E dt \in SlamDts :
        /\ Len(enemies) > 0
        /\ Commit(update(S, dt))
        /\ \E o \in {SlamObserved(S, dt)} : hist' = o

NextSlam == SlamFrame

SpecSlam == InitSlam /\ [][NextSlam]_vars

\* C36: whenever a tower with a cooldown fires (sets its cooldown to its period),
\* it has in that update damaged or affected at least one enemy or made at least
\* one effect.
C36_FiringAffectsSomething == hist.fired => hist.affected


(***************************************************************************)
(* SpecLive: enemies under the towers that stun and push back.  In wave 1  *)
(* of the jungle map an Ankylosaurus (slam: damage, stun, knockback) and a *)
(* TRex (bite on the target, stun around it) stand at the end of the path; *)
(* two enemies walk there and the spawner may add more.  The loop calls    *)
(* update(dt) again and again (weak fairness on LiveFrame); the speed      *)
(* button toggles gameSpeed between 1 and 2 at any time.                   *)
(***************************************************************************)
MaxLiveIds == 3
LiveDts == {DtFrame}
LiveWaypoints == {11, 12}

InitLive ==
    /\ gameSettings = DefaultSettings
    /\ currentMapId = "jungle"
    /\ LET \* both are steam elites (66 hp): a bite and a slam leave them alive
           s1 == SpawnTick(StartBtn(InitialState), 999, 0, 0)
           s2 == SpawnTick(s1, 999, 0, 0)
           \* kills and wave bonuses have paid for the towers (cost 110 and 150)
           s3 == CanvasClick(MouseMove(SelectTower([s2 EXCEPT !.money = 300], "Ankylosaurus"),
                                       <<610, 290>>))
           s4 == CanvasClick(MouseMove(SelectTower(s3, "TRex"), <<720, 340>>))
       IN  \E w \in LiveWaypoints :
               Start([s4 EXCEPT !.enemies = <<EnemyAt(s2.enemies[1], w + 1),
                                              EnemyAt(s2.enemies[2], w)>>])
    /\ hist = [frames |-> 0]

\* the loop goes on while the game is not over; frames with nothing on the path are
\* left out
LiveRunning == Len(enemies) > 0 /\ lives > 0

\* the loop's callback: update(dt) with dt > 0; hist.frames is the parity of the
\* number of frames
LiveFrame ==
    \E dt \in LiveDts :
        /\ LiveRunning
        /\ Commit(update(S, dt))
        /\ hist' = [frames |-> 1 - hist.frames]

\* LiveFrame seen through hist alone: update is defined in every state, so LiveFrame
\* is enabled exactly when LiveRunning holds, and no other action changes hist
LiveTick == LiveRunning /\ hist' = [frames |-> 1 - hist.frames]

LiveFastBtn ==
    /\ Len(enemies) > 0
    /\ Commit(FastBtn(S))
    /\ UNCHANGED hist

LiveSpawnInterval ==
    /\ spawnTimerId
    /\ Len(enemies) < MaxEnemies
    /\ ENEMY_ID_SEQ <= MaxLiveIds
    /\ \E rElite \in Rolls, rSteam \in Rolls, rPath \in PathRolls :
          Commit(SpawnTick(S, rElite, rSteam, rPath))
    /\ UNCHANGED hist

NextLive ==
    \/ LiveFrame
    \/ LiveFastBtn
    \/ LiveSpawnInterval

\* requestAnimationFrame calls the loop again after every frame: weak fairness on
\* the frame
SpecLive == InitLive /\ [][NextLive]_vars /\ WF_hist(LiveTick)

\* the enemy with this id is in the list and alive
AliveId(id) == \E i \in 1..Len(enemies) : enemies[i].id = id /\ enemies[i].alive

\* C37: while the loop keeps calling update with gameSpeed > 0, every spawned enemy
\* is at some later time not alive (killed or escaped), whatever stuns, slows and
\* knockbacks the towers apply.
C37_EveryEnemyEnds == \A id \in 1..(MaxLiveIds + 1) : AliveId(id) ~> ~AliveId(id)

\* an enemy that was slammed (damage 18, stunned, pushed back) is still on the path
C37_Witness ==
    \E i \in 1..Len(enemies) :
        enemies[i].alive /\ enemies[i].stunTimer > 0 /\ enemies[i].hp = 13200 - 3600


(***************************************************************************)
(* SpecFx: the effects in flight.  In wave 1 of the jungle map a homing    *)
(* leap and a spit fly along the last segment of the path at an enemy that *)
(* stands or walks there, or that is about to escape; a spike and a rush   *)
(* fly along the row y = 140 past a second enemy.  The spit leaves an acid *)
(* pool where it hits.  No tower makes new effects.  The loop calls        *)
(* update(dt) again and again (weak fairness on the frame) at game speed 1 *)
(* or 2.                                                                   *)
(***************************************************************************)
\* where the target stands: at the corner (680,300), or 2 px before the end
FxTargets == {680, 748}
FxSpeeds == {1, 2}
FxDts == {1, DtFrame}

InitFx ==
    \E x0 \in LeapStarts, stun \in LeapStuns, tx \in FxTargets, gs \in FxSpeeds :
        /\ gameSettings = DefaultSettings
        /\ currentMapId = "jungle"
        /\ LET s1 == SpawnTick(StartBtn(InitialState), 999, 999, 0)
               s2 == SpawnTick(s1, 999, 999, 0)
               e1 == applyStun([EnemyAt(s2.enemies[1], Len(MAPS.jungle.path) - 2)
                                   EXCEPT !.x = tx], stun)
               e2 == [EnemyAt(s2.enemies[2], 4) EXCEPT !.x = SpikeRow[1]]
           IN  Start([s2 EXCEPT
                        !.gameSpeed = gs,
                        !.enemies = <<e1, e2>>,
                        !.raptorLeaps = <<HomingLeap(x0, e1.y, e1, 4500, 1600, 60, 60)>>,
                        !.spits = <<SpitProjectile(x0, e1.y, e1, 3800, 1200, DilophosaurusPool)>>,
                        !.rushStrikes = <<RushStrike(150, 140, 0, 6000, 160, 16, 60, 2400)>>,
                        !.spikes = <<SpikeProjectile(150, 140, 0, 5200, 3600, 4)>>])
        /\ hist = [frames |-> 0]

\* the five lists of effects
FxLists == <<raptorLeaps, rushStrikes, spits, acidPools, spikes>>

\* the loop goes on while the game is not over; frames with no effect left are
\* left out
FxRunning == lives > 0 /\ \E q \in 1..5 : Len(FxLists[q]) > 0

\* the loop's callback: update(dt) with dt > 0; hist.frames is the parity of the
\* number of frames
FxFrame ==
    \E dt \in FxDts :
        /\ FxRunning
        /\ Commit(update(S, dt))
        /\ hist' = [frames |-> 1 - hist.frames]

\* FxFrame seen through hist alone: update is defined in every state, so FxFrame is
\* enabled exactly when FxRunning holds
FxTick == FxRunning /\ hist' = [frames |-> 1 - hist.frames]

NextFx == FxFrame

\* requestAnimationFrame calls the loop again after every frame: weak fairness on
\* the frame
SpecFx == InitFx /\ [][NextFx]_vars /\ WF_hist(FxTick)

\* C38: while the loop keeps calling update with gameSpeed > 0, every effect is at
\* some later time not alive and out of its list: an update leaves no effect that
\* is not alive in a list, and each list that holds an effect is empty later.
C38_EveryEffectEnds ==
    /\ [](\A q \in 1..5 : \A k \in 1..Len(FxLists[q]) : FxLists[q][k].alive)
    /\ \A q \in 1..5 : (Len(FxLists[q]) > 0) ~> (Len(FxLists[q]) = 0)

\* the spit has hit and is gone, the leap is gone, and the pool the spit left is
\* still there
C38_Witness == Len(acidPools) = 1 /\ Len(spits) = 0 /\ Len(raptorLeaps) = 0

\* the leap has flown past its target and turns back
C38_WitnessTurn == Len(raptorLeaps) = 1 /\ raptorLeaps[1].angle \notin {0, 90, 180, -90}

\* every effect has ended while an enemy is still on the path
C38_WitnessEnd == ~FxRunning /\ Len(enemies) > 0 /\ hist.frames = 1


\* C39: every enemy's waypoint index stays within its path, 0 <= waypoint <=
\* length - 1, and an enemy that is alive after its update has a next waypoint
\* (waypoint <= length - 2), whatever the order of updates and knockbacks.
C39_WaypointInPath ==
    /\ \A i \in 1..Len(enemies) :
          /\ enemies[i].waypoint >= 0
          /\ enemies[i].waypoint <= Len(PathOf(enemies[i])) - 1
    /\ hist.op = "update" =>
          \A i \in 1..Len(enemies) :
              enemies[i].alive => enemies[i].waypoint <= Len(PathOf(enemies[i])) - 2

\* after its update the enemy is alive on the last segment of its path
C39_Witness ==
    /\ hist.op = "update" /\ hist.pushes = 0
    /\ enemies[1].alive
    /\ enemies[1].waypoint = Len(PathOf(enemies[1])) - 2

\* the enemy has escaped: it stands on the last waypoint and is not alive
C39_WitnessEnd ==
    ~enemies[1].alive /\ enemies[1].waypoint = Len(PathOf(enemies[1])) - 1


(***************************************************************************)
(* SpecRestart: a restart in the middle of a game.  In wave 1 of the       *)
(* jungle map a Brachiosaurus stands at the end of the path, two enemies   *)
(* are on the path, the spawner is running, the auto-next box is ticked,   *)
(* the game speed is 1 or 2, and a leap, a spit, a rush and a spike are in *)
(* flight.  The player restarts, starts waves and places towers; frames    *)
(* are short while an effect is in flight and long otherwise.              *)
(* hist.started tells whether a wave was begun since the last restart (or  *)
(* since the page was loaded), hist.restarted whether the last step was a  *)
(* restart.                                                                *)
(***************************************************************************)
InitRestart ==
    \E tx \in FxTargets, gs \in FxSpeeds :
        /\ gameSettings = DefaultSettings
        /\ currentMapId = "jungle"
        /\ LET s0 == CanvasClick(MouseMove(SelectTower(InitialState, "Brachiosaurus"),
                                           <<715, 340>>))
               s1 == SpawnTick(StartBtn(s0), 999, 999, 0)
               s2 == SpawnTick(s1, 999, 999, 0)
               e1 == [EnemyAt(s2.enemies[1], Len(MAPS.jungle.path) - 2) EXCEPT !.x = tx]
               e2 == [EnemyAt(s2.enemies[2], 4) EXCEPT !.x = SpikeRow[1]]
           IN  Start([s2 EXCEPT
                        !.gameSpeed = gs,
                        !.autoNextChecked = TRUE,
                        !.enemies = <<e1, e2>>,
                        !.raptorLeaps = <<HomingLeap(560, e1.y, e1, 4500, 1600, 60, 60)>>,
                        !.spits = <<SpitProjectile(560, e1.y, e1, 3800, 1200, DilophosaurusPool)>>,
                        !.rushStrikes = <<RushStrike(150, 140, 0, 6000, 160, 16, 60, 2400)>>,
                        !.spikes = <<SpikeProjectile(150, 140, 0, 5200, 3600, 4)>>])
        /\ hist = [started |-> TRUE, restarted |-> FALSE]

\* a step that is not a restart: hist.started rises when a wave begins
RestartStep(next) ==
    /\ Commit(next)
    /\ hist' = [started |-> hist.started \/ wave' > wave, restarted |-> FALSE]

RestartFrame ==
    \E dt \in {1, DtLong} :
        /\ lives > 0
        /\ dt = 1 => \E q \in 1..5 : Len(FxLists[q]) > 0
        /\ RestartStep(update(S, dt))

RestartStartBtn == wave < MaxWave /\ RestartStep(StartBtn(S))

RestartSpawnInterval ==
    /\ spawnTimerId
    /\ Len(enemies) < MaxEnemies
    /\ ENEMY_ID_SEQ <= MaxIds
    /\ \E rElite \in Rolls, rSteam \in Rolls, rPath \in PathRolls :
          RestartStep(SpawnTick(S, rElite, rSteam, rPath))

RestartTimeout ==
    /\ autoNextTimeouts > 0
    /\ wave < MaxWave
    /\ RestartStep(AutoNextTimeout(S))

RestartCanvasClick == Len(towers) < MaxTowers /\ RestartStep(CanvasClick(S))

\* restartBtn 'click'
RestartRestart ==
    /\ wave > 0
    /\ wave <= MaxRestartWave
    /\ Commit([restartGame(S) EXCEPT !.rafPending = 1])
    /\ hist' = [started |-> FALSE, restarted |-> TRUE]

NextRestart ==
    \/ RestartFrame
    \/ RestartStartBtn
    \/ RestartSpawnInterval
    \/ RestartTimeout
    \/ RestartCanvasClick
    \/ RestartRestart

SpecRestart == InitRestart /\ [][NextRestart]_vars

\* C40: after restartGame, from any state, money and lives have their configured
\* starting values, wave is 0, gameSpeed is 1, the lists of enemies, towers and
\* effects are empty, no wave is spawning and neither the spawner's interval nor the
\* auto-next timeout is pending; so every enemy spawned later belongs to a wave begun
\* after the restart.
C40_RestartResets ==
    /\ hist.restarted =>
          /\ money = gameSettings.startingMoney
          /\ lives = gameSettings.startingLives
          /\ wave = 0
          /\ gameSpeed = 1
          /\ enemies = <<>> /\ towers = <<>>
          /\ \A q \in 1..5 : FxLists[q] = <<>>
          /\ ~spawning /\ ~spawnTimerId
          /\ ~autoNextTimerId /\ autoNextTimeouts = 0
    /\ Len(enemies) > 0 => hist.started /\ wave >= 1

\* a restart with enemies on the path, a tower, effects in flight, the spawner
\* running and game speed 2 has just been made
C40_Witness == hist.restarted /\ ENEMY_ID_SEQ = 3 /\ rafPending = 1 /\ wave = 0

\* after the restart a new wave 1 has spawned its first enemy
C40_WitnessNewWave ==
    hist.started /\ wave = 1 /\ ENEMY_ID_SEQ > 3 /\ Len(enemies) = 1 /\ Len(towers) = 0

====
